---- MODULE Spec2Model ----
(***************************************************************************)
(* users-service: the account-deletion saga (DELETE /users/{id}), the      *)
(* authenticated read GET /users/{id}, the insertion of user records by    *)
(* registration, the CircuitBreaker class, the Redis cache of              *)
(* GET /internal/users/{id} and the Redis login throttle of POST /login.   *)
(*                                                                         *)
(* These specifications share the module:                                  *)
(*   Spec         the request handlers of routes/users.ts running          *)
(*                concurrently against the users collection, the expenses  *)
(*                collaborator and the analytics collaborator;             *)
(*   SpecBreaker  one CircuitBreaker object driven by calls of             *)
(*                canRequest / success / failure while the clock advances; *)
(*   SpecNotify   concurrent calls of notifyPreferencesInit on the module's *)
(*                breaker (built with the default threshold and cooldown);  *)
(*   SpecRegister POST /register handlers running concurrently against the  *)
(*                users collection and the notifications collaborator.      *)
(*   SpecRegisterFair  SpecRegister with the handler's own steps fair;     *)
(*   SpecCache    GET /internal/users/{id} handlers and profile updates    *)
(*                against the users collection and the Redis cache;        *)
(*   SpecStale    GET /internal/users/{id} handlers beside the changes and *)
(*                deletions of the records, the Redis server answering;    *)
(*   SpecThrottle POST /login handlers against the users collection and    *)
(*                the login_attempts key of one email in Redis;            *)
(*   SpecBurst    overlapping POST /login handlers, the server answering;  *)
(*   SpecClient   both Redis-backed routes while the connection is lost    *)
(*                and made again and the exported client is set to null.   *)
(* Every "await" of a handler is a suspension point, so a handler is one   *)
(* action per segment between two awaits.                                  *)
(***************************************************************************)
EXTENDS Integers, FiniteSets, Sequences, TLC

\* ---------------------------------------------------------------- bounds
MaxUsers == 1        \* user records ever inserted (ObjectIds 1..MaxUsers)
MaxReqs == 2         \* HTTP requests handled in one behaviour
MaxTime == 4         \* last clock value of the breaker specification
MaxFailures == 5     \* cap of the breaker's failure counter
MaxThreshold == 3    \* largest failureThreshold a breaker is built with
MaxCooldown == 2     \* largest cooldownTime a breaker is built with
MaxCalls == 4        \* calls of notifyPreferencesInit in one behaviour
MaxElapse == 2       \* clock steps between the calls of one behaviour
MaxRegs == 2         \* POST /register requests in one behaviour
MaxEmails == 2       \* distinct email addresses in the request bodies
MaxEdits == 1        \* changes and deletions of user records in one behaviour
MaxLogins == 7       \* POST /login requests in one behaviour
MaxInFlight == 1     \* requests of one Redis-backed route in flight at one time
MaxWait == 3         \* steps of the clock while reads are served beside writers

\* ------------------------------------------------------ program constants
DefaultThreshold == 3       \* constructor default of failureThreshold
DefaultCooldown == 30000    \* constructor default of cooldownTime (ms)
CacheTtl == 60              \* redis.set(cacheKey, ..., "EX", 60) (s)
AttemptLimit == 5           \* if (attempts > 5)
ThrottleTtl == 60           \* redis.expire(key, 60) (s)

\* ------------------------------------------------------- values and sets
Reqs == 1..MaxReqs
UserIds == 1..MaxUsers
BadId == 0           \* a path parameter that ObjectId.isValid rejects
NoToken == -1        \* no "Authorization: Bearer ..." header
BadToken == -2       \* a bearer token that verifyJwt rejects

NoReply == [kind |-> "none", status |-> 0, body |-> "none"]
TransportError == [kind |-> "error", status |-> 0, body |-> "none"]
HttpReply(s, b) == [kind |-> "response", status |-> s, body |-> b]

Calls == 1..MaxCalls
Regs == 1..MaxRegs
Emails == 1..MaxEmails
NoResult == [ok |-> FALSE, fallback |-> FALSE, state |-> "none"]

\* The response object of GET /internal/users/{id}: the projection of the
\* record as it was read (name stands for the fields that can change).
Projection(id, v) == [id |-> id, name |-> v]
NoBody == [id |-> BadId, name |-> 0]
\* JSON.stringify / JSON.parse of a projection
JSONstringify(p) == <<"json", p>>
JSONparse(str) == str[2]
\* no entry under the key; at is history: when the stored projection was
\* read from the users collection
NoEntry == [val |-> <<>>, exp |-> 0, at |-> 0]
\* the POST /login requests being handled, by slot: MaxInFlight of them
\* while the store fails and recovers, one more in a burst
Logins == 1..(MaxInFlight + 1)
\* the email whose login_attempts key is followed
LoginEmails == {1}
\* login_attempts:{email} does not exist; exp = 0 is a key without expiry
NoCounter == [count |-> 0, exp |-> 0]
\* the ids a key user:{id} can carry: every valid ObjectId
CacheKeys == 1..(MaxUsers + 1)

VARIABLES
    users,         \* _id of the records of the users collection
    nextId,        \* the next ObjectId insertOne generates
    debts,         \* expenses collaborator: per user "norecords" | "clear" | "debt"
    pc,            \* per request: position of its handler
    method,        \* per request: "NONE" | "DELETE" | "GET"
    reqId,         \* per request: the {id} path parameter
    tokenSub,      \* per request: NoToken, BadToken or the sub of the verified token
    status,        \* per request: HTTP status of the response, 0 while none
    debtRes,       \* per request: what fetch(debtStatus) settled with
    deletedCount,  \* per request: result.deletedCount, -1 while deleteOne has not run
    analytics,     \* per request: "none" | "pending" | "ok" | "notOk" | "rejected"
    log,           \* console output of the saga's step 3
    failures,      \* CircuitBreaker.failures
    state,         \* CircuitBreaker.state
    nextAttempt,   \* CircuitBreaker.nextAttempt
    failureThreshold, \* CircuitBreaker.failureThreshold
    cooldownTime,  \* CircuitBreaker.cooldownTime
    now,           \* Date.now()
    failsSinceSuccess, \* history: failure() calls since the last success() call
    lastCall,      \* history: the last breaker method called and what it returned
    prevState,     \* history: CircuitBreaker.state when that method was called
    npc,           \* per notifyPreferencesInit call: "idle" | "fetch" | "done"
    nfetch,        \* per call: what its fetch settled with, NoReply while none
    nresult,       \* per call: the object it returned, NoResult while none
    nrecorded,     \* history, per call: breaker.success/failure calls it made
    docs,          \* users collection: the [id, email] of its documents
    rpc,           \* per POST /register: position of its handler
    remail,        \* per POST /register: body.email
    rid,           \* per POST /register: result.insertedId, 0 while none
    rstatus,       \* per POST /register: HTTP status of the response, 0 while none
    envTEST,       \* Bun.env.TEST === "true"
    envCI,         \* process.env.CI === "true"
    redis,         \* lib/redis: TRUE while the exported client is not null
    storeUp,       \* the Redis server answers commands
    cache,         \* Redis: per user id the entry under user:{id}
    version,       \* users collection: per record how often its name was changed
    body,          \* per request: the projection the handler built or parsed
    dbReads,       \* history, per request: users.findOne calls it made
    cacheOps,      \* history, per request: the Redis commands it issued
    readAt,        \* history, per request: when findOne read what redis.set carries, -1 if none
    counter,       \* Redis: per email the value and expiry of login_attempts:{email}
    windowStart,   \* history, per email: when the INCR that created the key ran
    lpc,           \* per POST /login: position of its handler
    lemail,        \* per POST /login: body.email
    lgood,         \* per POST /login: body.password is the user's password
    lattempts,     \* per POST /login: attempts, 0 outside the throttle block
    lstatus,       \* per POST /login: HTTP status of the response, 0 while none
    lread,         \* history, per POST /login: it issued users.findOne
    nlogins,       \* history: POST /login requests received
    reached        \* history, per email: requests the throttle let through since the key was created

sagaVars == <<users, nextId, debts, pc, method, reqId, tokenSub, status,
              debtRes, deletedCount, analytics, log>>
breakerVars == <<failures, state, nextAttempt, failureThreshold, cooldownTime,
                 now, failsSinceSuccess, lastCall, prevState>>
notifyVars == <<npc, nfetch, nresult, nrecorded>>
registerVars == <<docs, rpc, remail, rid, rstatus, envTEST, envCI>>
storeVars == <<redis, storeUp, cache, version, body, dbReads, cacheOps, readAt,
               counter, windowStart, lpc, lemail, lgood, lattempts, lstatus,
               lread, nlogins, reached>>
vars == <<sagaVars, breakerVars, notifyVars, registerVars, storeVars>>

\* ------------------------------------------------------ pure operators

\* ObjectId.isValid(id)
ObjectIdIsValid(id) == id # BadId

\* Response.ok of fetch: status in the range 200-299
ResponseOk(s) == s >= 200 /\ s <= 299

\* authMiddleware: 401 unless a bearer token is present and verifies; 0 = next()
authMiddleware(tok) ==
    IF tok = NoToken THEN 401
    ELSE IF tok = BadToken THEN 401
    ELSE 0

PreChecks_NoOwnerCheck(id, tok) ==
    IF authMiddleware(tok) # 0 THEN authMiddleware(tok)
    ELSE IF ~ObjectIdIsValid(id) THEN 400
    ELSE 0

\* The synchronous prefix shared by GET/DELETE /{id}: middleware, then the
\* ObjectId check (400), then the owner check (403); 0 = the handler goes on.
PreChecks(id, tok) ==
    IF authMiddleware(tok) # 0 THEN authMiddleware(tok)
    ELSE IF ~ObjectIdIsValid(id) THEN 400
    ELSE IF tok # id THEN 403
    ELSE 0

\* The replies fetch(debtStatus) can settle with while the collaborator's
\* state for user u is d: the truthful answer, or a failure (a non-success
\* status, a success status with a malformed body, a rejected promise).
TruthfulReply(d) ==
    IF d = "norecords" THEN HttpReply(404, "none")
    ELSE IF d = "clear" THEN HttpReply(200, "canDeleteTrue")
    ELSE HttpReply(200, "canDeleteFalse")

FailureReplies ==
    { HttpReply(500, "none"), HttpReply(200, "unparsable"),
      HttpReply(200, "noData"), HttpReply(200, "noCanDelete"),
      TransportError }

DebtReplies(d) == {TruthfulReply(d)} \cup FailureReplies

DebtStates == {"norecords", "clear", "debt"}
AllReplies == {TruthfulReply(d) : d \in DebtStates} \cup FailureReplies

DebtDecision_MissingFieldAllows(reply) ==
    IF reply.kind = "error" THEN 500
    ELSE IF ResponseOk(reply.status) THEN
        IF reply.body \in {"unparsable", "noData"} THEN 500
        ELSE IF reply.body = "canDeleteFalse" THEN 409
        ELSE 0
    ELSE IF reply.status # 404 THEN 500
    ELSE 0

DebtDecision_FailOpen(reply) ==
    IF reply.kind = "error" THEN 0
    ELSE IF ResponseOk(reply.status) THEN
        IF reply.body \in {"unparsable", "noData"} THEN 0
        ELSE IF reply.body # "canDeleteTrue" THEN 409
        ELSE 0
    ELSE 0

DebtDecision_IgnoreCanDelete(reply) ==
    IF reply.kind = "error" THEN 500
    ELSE IF ResponseOk(reply.status) THEN
        IF reply.body \in {"unparsable", "noData"} THEN 500
        ELSE 0
    ELSE IF reply.status # 404 THEN 500
    ELSE 0

DebtDecision_404IsError(reply) ==
    IF reply.kind = "error" THEN 500
    ELSE IF ResponseOk(reply.status) THEN
        IF reply.body \in {"unparsable", "noData"} THEN 500
        ELSE IF reply.body # "canDeleteTrue" THEN 409
        ELSE 0
    ELSE 500

\* SAGA PASO 1, the try/catch around the debt check: the status the handler
\* returns, or 0 when it falls through to the local delete.
\*   rejected fetch, json() that throws, data undefined   -> catch -> 500
\*   ok and !data.canDelete                                -> 409
\*   not ok and status !== 404                             -> 500
DebtDecision(reply) ==
    IF reply.kind = "error" THEN 500
    ELSE IF ResponseOk(reply.status) THEN
        IF reply.body \in {"unparsable", "noData"} THEN 500
        ELSE IF reply.body # "canDeleteTrue" THEN 409
        ELSE 0
    ELSE IF reply.status # 404 THEN 500
    ELSE 0

\* The console line of SAGA PASO 3 for a settled analytics call
LogLine(r, u, outcome) ==
    [req |-> r, user |-> u,
     level |-> IF outcome = "ok" THEN "info" ELSE "alert"]

\* ------------------------------------------------------------ saga: Init
InitSaga ==
    /\ \E n \in 0..MaxUsers : users = 1..n /\ nextId = n + 1
    /\ debts \in [UserIds -> DebtStates]
    /\ \A u \in UserIds : u >= nextId => debts[u] = "norecords"
    /\ pc = [r \in Reqs |-> "idle"]
    /\ method = [r \in Reqs |-> "NONE"]
    /\ reqId = [r \in Reqs |-> BadId]
    /\ tokenSub = [r \in Reqs |-> NoToken]
    /\ status = [r \in Reqs |-> 0]
    /\ debtRes = [r \in Reqs |-> NoReply]
    /\ deletedCount = [r \in Reqs |-> -1]
    /\ analytics = [r \in Reqs |-> "none"]
    /\ log = {}

InitBreakerIdle ==
    /\ failures = 0
    /\ state = "CLOSED"
    /\ nextAttempt = 0
    /\ failureThreshold = 3
    /\ cooldownTime = 1
    /\ now = 0
    /\ failsSinceSuccess = 0
    /\ lastCall = "none"
    /\ prevState = "none"

\* No call of notifyPreferencesInit and no POST /register is made
InitNotifyIdle ==
    /\ npc = [n \in Calls |-> "idle"]
    /\ nfetch = [n \in Calls |-> NoReply]
    /\ nresult = [n \in Calls |-> NoResult]
    /\ nrecorded = [n \in Calls |-> <<>>]

InitRegisterIdle ==
    /\ docs = {}
    /\ rpc = [r \in Regs |-> "idle"]
    /\ remail = [r \in Regs |-> 0]
    /\ rid = [r \in Regs |-> 0]
    /\ rstatus = [r \in Regs |-> 0]
    /\ envTEST = FALSE
    /\ envCI = FALSE

\* The store client is disabled and no internal read is made
InitStoreIdle ==
    /\ redis = FALSE
    /\ storeUp = FALSE
    /\ cache = [k \in CacheKeys |-> NoEntry]
    /\ version = [u \in UserIds |-> 0]
    /\ body = [r \in Reqs |-> NoBody]
    /\ dbReads = [r \in Reqs |-> 0]
    /\ cacheOps = [r \in Reqs |-> <<>>]
    /\ readAt = [r \in Reqs |-> -1]
    /\ counter = [e \in LoginEmails |-> NoCounter]
    /\ windowStart = [e \in LoginEmails |-> 0]
    /\ lpc = [l \in Logins |-> "idle"]
    /\ lemail = [l \in Logins |-> 0]
    /\ lgood = [l \in Logins |-> FALSE]
    /\ lattempts = [l \in Logins |-> 0]
    /\ lstatus = [l \in Logins |-> 0]
    /\ lread = [l \in Logins |-> FALSE]
    /\ nlogins = 0
    /\ reached = [e \in LoginEmails |-> 0]

\* c.req.param('id') as the handler reads it: the middleware answers a
\* request without a valid token before the handler runs, so the parameter
\* of such a request is never read.
ParamId(id, tok) == IF authMiddleware(tok) # 0 THEN BadId ELSE id

\* Requests are numbered in the order in which they arrive.
Arrives(r) == \A q \in Reqs : q < r => pc[q] # "idle"

\* Tokens are signed by the service at login: their sub is an id that was
\* inserted at some time (the record may have been deleted since).
Tokens == {NoToken, BadToken} \cup (1..(nextId - 1))
\* The {id} of a request: an invalid string, the ObjectId of a record that
\* was or may be inserted, or a valid ObjectId that no record ever has.
PathIds == {BadId} \cup UserIds \cup {MaxUsers + 1}

\* --------------------------------------------------------- saga: actions

DeleteStart_SkipDebtCheck(r, id, tok) ==
    /\ pc[r] = "idle"
    /\ Arrives(r)
    /\ method' = [method EXCEPT ![r] = "DELETE"]
    /\ reqId' = [reqId EXCEPT ![r] = ParamId(id, tok)]
    /\ tokenSub' = [tokenSub EXCEPT ![r] = tok]
    /\ IF PreChecks(id, tok) # 0
       THEN /\ status' = [status EXCEPT ![r] = PreChecks(id, tok)]
            /\ pc' = [pc EXCEPT ![r] = "done"]
       ELSE /\ pc' = [pc EXCEPT ![r] = "localDelete"]
            /\ UNCHANGED status
    /\ UNCHANGED <<users, nextId, debts, debtRes, deletedCount, analytics, log>>
    /\ UNCHANGED <<breakerVars, notifyVars, registerVars>>
    /\ UNCHANGED storeVars

\* DELETE /{id}: the middleware and the handler up to the first await: the
\* request is answered 401/400/403, or the debt-status fetch is in flight.
DeleteStart(r, id, tok) ==
    /\ pc[r] = "idle"
    /\ Arrives(r)
    /\ method' = [method EXCEPT ![r] = "DELETE"]
    /\ reqId' = [reqId EXCEPT ![r] = ParamId(id, tok)]
    /\ tokenSub' = [tokenSub EXCEPT ![r] = tok]
    /\ IF PreChecks(id, tok) # 0
       THEN /\ status' = [status EXCEPT ![r] = PreChecks(id, tok)]
            /\ pc' = [pc EXCEPT ![r] = "done"]
       ELSE /\ pc' = [pc EXCEPT ![r] = "debtCheck"]
            /\ UNCHANGED status
    /\ UNCHANGED <<users, nextId, debts, debtRes, deletedCount, analytics, log>>
    /\ UNCHANGED <<breakerVars, notifyVars, registerVars>>
    /\ UNCHANGED storeVars

\* DELETE /{id}: the debt-status fetch settles with reply; the handler
\* answers 409/500 or issues users.deleteOne.
DebtCheckSettles(r, reply) ==
    /\ pc[r] = "debtCheck"
    /\ reply \in DebtReplies(debts[reqId[r]])
    /\ debtRes' = [debtRes EXCEPT ![r] = reply]
    /\ IF DebtDecision(reply) # 0
       THEN /\ status' = [status EXCEPT ![r] = DebtDecision(reply)]
            /\ pc' = [pc EXCEPT ![r] = "done"]
       ELSE /\ pc' = [pc EXCEPT ![r] = "localDelete"]
            /\ UNCHANGED status
    /\ UNCHANGED <<users, nextId, debts, method, reqId, tokenSub,
                   deletedCount, analytics, log>>
    /\ UNCHANGED <<breakerVars, notifyVars, registerVars>>
    /\ UNCHANGED storeVars

LocalDelete_KeepsRecord(r) ==
    /\ pc[r] = "localDelete"
    /\ deletedCount' = [deletedCount EXCEPT
                          ![r] = IF reqId[r] \in users THEN 1 ELSE 0]
    /\ users' = users
    /\ IF reqId[r] \in users
       THEN /\ analytics' = [analytics EXCEPT ![r] = "pending"]
            /\ status' = [status EXCEPT ![r] = 200]
       ELSE /\ status' = [status EXCEPT ![r] = 404]
            /\ UNCHANGED analytics
    /\ pc' = [pc EXCEPT ![r] = "done"]
    /\ UNCHANGED <<nextId, debts, method, reqId, tokenSub, debtRes, log>>
    /\ UNCHANGED <<breakerVars, notifyVars, registerVars>>
    /\ UNCHANGED storeVars

LocalDelete_ZeroRowsIsSuccess(r) ==
    /\ pc[r] = "localDelete"
    /\ deletedCount' = [deletedCount EXCEPT
                          ![r] = IF reqId[r] \in users THEN 1 ELSE 0]
    /\ users' = users \ {reqId[r]}
    /\ analytics' = [analytics EXCEPT ![r] = "pending"]
    /\ status' = [status EXCEPT ![r] = 200]
    /\ pc' = [pc EXCEPT ![r] = "done"]
    /\ UNCHANGED <<nextId, debts, method, reqId, tokenSub, debtRes, log>>
    /\ UNCHANGED <<breakerVars, notifyVars, registerVars>>
    /\ UNCHANGED storeVars

\* DELETE /{id}: users.deleteOne runs on the collection and the handler
\* resumes: 404 when no row was deleted, else the analytics DELETE is
\* issued without await and the handler answers {success: true}.
LocalDelete(r) ==
    /\ pc[r] = "localDelete"
    /\ deletedCount' = [deletedCount EXCEPT
                          ![r] = IF reqId[r] \in users THEN 1 ELSE 0]
    /\ users' = users \ {reqId[r]}
    /\ IF reqId[r] \in users
       THEN /\ analytics' = [analytics EXCEPT ![r] = "pending"]
            /\ status' = [status EXCEPT ![r] = 200]
       ELSE /\ status' = [status EXCEPT ![r] = 404]
            /\ UNCHANGED analytics
    /\ pc' = [pc EXCEPT ![r] = "done"]
    /\ UNCHANGED <<nextId, debts, method, reqId, tokenSub, debtRes, log>>
    /\ UNCHANGED <<breakerVars, notifyVars, registerVars>>
    /\ UNCHANGED storeVars

AnalyticsSettles_RejectionSilent(r, outcome) ==
    /\ analytics[r] = "pending"
    /\ outcome \in {"ok", "notOk", "rejected"}
    /\ analytics' = [analytics EXCEPT ![r] = outcome]
    /\ log' = IF outcome = "rejected" THEN log
              ELSE log \cup {LogLine(r, reqId[r], outcome)}
    /\ UNCHANGED <<users, nextId, debts, pc, method, reqId, tokenSub, status,
                   debtRes, deletedCount>>
    /\ UNCHANGED <<breakerVars, notifyVars, registerVars>>
    /\ UNCHANGED storeVars

AnalyticsSettles_FailsRequest(r, outcome) ==
    /\ analytics[r] = "pending"
    /\ outcome \in {"ok", "notOk", "rejected"}
    /\ analytics' = [analytics EXCEPT ![r] = outcome]
    /\ log' = log \cup {LogLine(r, reqId[r], outcome)}
    /\ status' = [status EXCEPT ![r] = IF outcome = "ok" THEN 200 ELSE 500]
    /\ UNCHANGED <<users, nextId, debts, pc, method, reqId, tokenSub,
                   debtRes, deletedCount>>
    /\ UNCHANGED <<breakerVars, notifyVars, registerVars>>
    /\ UNCHANGED storeVars

\* SAGA PASO 3, the detached promise: the analytics DELETE settles with a
\* success response ("ok"), a non-success response ("notOk") or a rejection
\* ("rejected"); .then/.catch write one console line.
AnalyticsSettles(r, outcome) ==
    /\ analytics[r] = "pending"
    /\ outcome \in {"ok", "notOk", "rejected"}
    /\ analytics' = [analytics EXCEPT ![r] = outcome]
    /\ log' = log \cup {LogLine(r, reqId[r], outcome)}
    /\ UNCHANGED <<users, nextId, debts, pc, method, reqId, tokenSub, status,
                   debtRes, deletedCount>>
    /\ UNCHANGED <<breakerVars, notifyVars, registerVars>>
    /\ UNCHANGED storeVars

\* GET /{id}: the middleware and the handler up to users.findOne.
GetStart(r, id, tok) ==
    /\ pc[r] = "idle"
    /\ Arrives(r)
    /\ method' = [method EXCEPT ![r] = "GET"]
    /\ reqId' = [reqId EXCEPT ![r] = ParamId(id, tok)]
    /\ tokenSub' = [tokenSub EXCEPT ![r] = tok]
    /\ IF PreChecks(id, tok) # 0
       THEN /\ status' = [status EXCEPT ![r] = PreChecks(id, tok)]
            /\ pc' = [pc EXCEPT ![r] = "done"]
       ELSE /\ pc' = [pc EXCEPT ![r] = "findOne"]
            /\ UNCHANGED status
    /\ UNCHANGED <<users, nextId, debts, debtRes, deletedCount, analytics, log>>
    /\ UNCHANGED <<breakerVars, notifyVars, registerVars>>
    /\ UNCHANGED storeVars

\* GET /{id}: users.findOne runs and the handler answers 200 or 404.
FindOne(r) ==
    /\ pc[r] = "findOne"
    /\ status' = [status EXCEPT ![r] = IF reqId[r] \in users THEN 200 ELSE 404]
    /\ pc' = [pc EXCEPT ![r] = "done"]
    /\ UNCHANGED <<users, nextId, debts, method, reqId, tokenSub, debtRes,
                   deletedCount, analytics, log>>
    /\ UNCHANGED <<breakerVars, notifyVars, registerVars>>
    /\ UNCHANGED storeVars

FreedIds == {id \in 1..(nextId - 1) : id \notin users}

RegisterInsert_ReusesId ==
    /\ IF FreedIds # {}
       THEN /\ users' = users \cup {CHOOSE id \in FreedIds : TRUE}
            /\ nextId' = nextId
       ELSE /\ nextId <= MaxUsers
            /\ users' = users \cup {nextId}
            /\ nextId' = nextId + 1
    /\ UNCHANGED <<debts, pc, method, reqId, tokenSub, status, debtRes,
                   deletedCount, analytics, log>>
    /\ UNCHANGED <<breakerVars, notifyVars, registerVars>>
    /\ UNCHANGED storeVars

\* POST /register, users.insertOne: the collection gains one record under
\* a newly generated ObjectId (the document carries no _id of its own).
RegisterInsert ==
    /\ nextId <= MaxUsers
    /\ users' = users \cup {nextId}
    /\ nextId' = nextId + 1
    /\ UNCHANGED <<debts, pc, method, reqId, tokenSub, status, debtRes,
                   deletedCount, analytics, log>>
    /\ UNCHANGED <<breakerVars, notifyVars, registerVars>>
    /\ UNCHANGED storeVars

\* The expenses collaborator's own state changes: a registered user u gets
\* its first records, runs into debt, or settles.
ExpensesChange(u, d) ==
    /\ u < nextId
    /\ d \in DebtStates
    /\ d # debts[u]
    /\ debts' = [debts EXCEPT ![u] = d]
    /\ UNCHANGED <<users, nextId, pc, method, reqId, tokenSub, status,
                   debtRes, deletedCount, analytics, log>>
    /\ UNCHANGED <<breakerVars, notifyVars, registerVars>>
    /\ UNCHANGED storeVars

Init ==
    /\ InitSaga /\ InitBreakerIdle /\ InitNotifyIdle /\ InitRegisterIdle
    /\ InitStoreIdle

Next ==
    \/ \E r \in Reqs, id \in PathIds, tok \in Tokens : DeleteStart(r, id, tok)
    \/ \E r \in Reqs, reply \in AllReplies : DebtCheckSettles(r, reply)
    \/ \E r \in Reqs : LocalDelete(r)
    \/ \E r \in Reqs, outcome \in {"ok", "notOk", "rejected"} :
          AnalyticsSettles(r, outcome)
    \/ \E r \in Reqs, id \in PathIds, tok \in Tokens : GetStart(r, id, tok)
    \/ \E r \in Reqs : FindOne(r)
    \/ RegisterInsert
    \/ \E u \in UserIds, d \in DebtStates :
          ExpensesChange(u, d)

Spec == Init /\ [][Next]_vars

\* ------------------------------------------------------- CircuitBreaker
\* A breaker as the constructor leaves it; the thresholds and cooldowns are
\* the positive values a caller may pass (the defaults are 3 and 30000 ms,
\* the clock of the model counts in units of the shortest cooldown).
InitBreaker ==
    /\ failures = 0
    /\ state = "CLOSED"
    /\ nextAttempt = 0
    /\ failureThreshold \in 1..MaxThreshold
    /\ cooldownTime \in 1..MaxCooldown
    /\ now = 0
    /\ failsSinceSuccess = 0
    /\ lastCall = "none"
    /\ prevState = "none"

InitSagaIdle ==
    /\ users = {}
    /\ nextId = 1
    /\ debts = [u \in UserIds |-> "norecords"]
    /\ pc = [r \in Reqs |-> "idle"]
    /\ method = [r \in Reqs |-> "NONE"]
    /\ reqId = [r \in Reqs |-> BadId]
    /\ tokenSub = [r \in Reqs |-> NoToken]
    /\ status = [r \in Reqs |-> 0]
    /\ debtRes = [r \in Reqs |-> NoReply]
    /\ deletedCount = [r \in Reqs |-> -1]
    /\ analytics = [r \in Reqs |-> "none"]
    /\ log = {}

breaker_canRequest_IgnoresState ==
    /\ IF now > nextAttempt
       THEN /\ state' = "HALF_OPEN"
            /\ lastCall' = "canRequest:true"
       ELSE /\ state' = state
            /\ lastCall' = IF state = "OPEN" THEN "canRequest:false"
                                             ELSE "canRequest:true"
    /\ prevState' = state
    /\ UNCHANGED <<failures, nextAttempt, failureThreshold, cooldownTime, now,
                   failsSinceSuccess>>

\* The effect of CircuitBreaker.canRequest() on the breaker; what it returns
\* is kept in lastCall.
breaker_canRequest ==
    /\ IF state = "OPEN"
       THEN IF now > nextAttempt
            THEN /\ state' = "HALF_OPEN"
                 /\ lastCall' = "canRequest:true"
            ELSE /\ state' = state
                 /\ lastCall' = "canRequest:false"
       ELSE /\ state' = state
            /\ lastCall' = "canRequest:true"
    /\ prevState' = state
    /\ UNCHANGED <<failures, nextAttempt, failureThreshold, cooldownTime, now,
                   failsSinceSuccess>>

\* The effect of CircuitBreaker.success() on the breaker
breaker_success ==
    /\ failures' = 0
    /\ state' = "CLOSED"
    /\ failsSinceSuccess' = 0
    /\ lastCall' = "success"
    /\ prevState' = state
    /\ UNCHANGED <<nextAttempt, failureThreshold, cooldownTime, now>>

\* The effect of CircuitBreaker.failure() on the breaker
breaker_failure ==
    /\ failures < MaxFailures
    /\ failures' = failures + 1
    /\ IF failures + 1 >= failureThreshold
       THEN /\ state' = "OPEN"
            /\ nextAttempt' = now + cooldownTime
       ELSE UNCHANGED <<state, nextAttempt>>
    /\ failsSinceSuccess' = failsSinceSuccess + 1
    /\ lastCall' = "failure"
    /\ prevState' = state
    /\ UNCHANGED <<failureThreshold, cooldownTime, now>>

canRequest_ResetsCount ==
    /\ IF state = "OPEN"
       THEN IF now > nextAttempt
            THEN /\ state' = "HALF_OPEN"
                 /\ failures' = 0
                 /\ lastCall' = "canRequest:true"
            ELSE /\ state' = state
                 /\ failures' = failures
                 /\ lastCall' = "canRequest:false"
       ELSE /\ state' = state
            /\ failures' = failures
            /\ lastCall' = "canRequest:true"
    /\ prevState' = state
    /\ UNCHANGED <<nextAttempt, failureThreshold, cooldownTime, now,
                   failsSinceSuccess>>
    /\ UNCHANGED <<sagaVars, notifyVars, registerVars>>
    /\ UNCHANGED storeVars

\* CircuitBreaker.canRequest() called directly
canRequest ==
    /\ breaker_canRequest
    /\ UNCHANGED <<sagaVars, notifyVars, registerVars>>
    /\ UNCHANGED storeVars

success_KeepsCount ==
    /\ failures' = failures
    /\ state' = "CLOSED"
    /\ failsSinceSuccess' = 0
    /\ lastCall' = "success"
    /\ prevState' = state
    /\ UNCHANGED <<nextAttempt, failureThreshold, cooldownTime, now>>
    /\ UNCHANGED <<sagaVars, notifyVars, registerVars>>
    /\ UNCHANGED storeVars

success_OnlyFromHalfOpen ==
    /\ failures' = 0
    /\ state' = IF state = "HALF_OPEN" THEN "CLOSED" ELSE state
    /\ failsSinceSuccess' = 0
    /\ lastCall' = "success"
    /\ prevState' = state
    /\ UNCHANGED <<nextAttempt, failureThreshold, cooldownTime, now>>
    /\ UNCHANGED <<sagaVars, notifyVars, registerVars>>
    /\ UNCHANGED storeVars

\* CircuitBreaker.success() called directly
success ==
    /\ breaker_success
    /\ UNCHANGED <<sagaVars, notifyVars, registerVars>>
    /\ UNCHANGED storeVars

failure_KeepsDeadlineWhenOpen ==
    /\ failures < MaxFailures
    /\ failures' = failures + 1
    /\ IF failures + 1 >= failureThreshold
       THEN /\ state' = "OPEN"
            /\ nextAttempt' = IF state = "OPEN" THEN nextAttempt
                                                ELSE now + cooldownTime
       ELSE UNCHANGED <<state, nextAttempt>>
    /\ failsSinceSuccess' = failsSinceSuccess + 1
    /\ lastCall' = "failure"
    /\ prevState' = state
    /\ UNCHANGED <<failureThreshold, cooldownTime, now>>
    /\ UNCHANGED <<sagaVars, notifyVars, registerVars>>
    /\ UNCHANGED storeVars

failure_StrictThreshold ==
    /\ failures < MaxFailures
    /\ failures' = failures + 1
    /\ IF failures + 1 > failureThreshold
       THEN /\ state' = "OPEN"
            /\ nextAttempt' = now + cooldownTime
       ELSE UNCHANGED <<state, nextAttempt>>
    /\ failsSinceSuccess' = failsSinceSuccess + 1
    /\ lastCall' = "failure"
    /\ prevState' = state
    /\ UNCHANGED <<failureThreshold, cooldownTime, now>>
    /\ UNCHANGED <<sagaVars, notifyVars, registerVars>>
    /\ UNCHANGED storeVars

failure_NoTimestamp ==
    /\ failures < MaxFailures
    /\ failures' = failures + 1
    /\ IF failures + 1 >= failureThreshold
       THEN /\ state' = "OPEN"
            /\ nextAttempt' = nextAttempt
       ELSE UNCHANGED <<state, nextAttempt>>
    /\ failsSinceSuccess' = failsSinceSuccess + 1
    /\ lastCall' = "failure"
    /\ prevState' = state
    /\ UNCHANGED <<failureThreshold, cooldownTime, now>>
    /\ UNCHANGED <<sagaVars, notifyVars, registerVars>>
    /\ UNCHANGED storeVars

\* CircuitBreaker.failure() called directly
failure ==
    /\ breaker_failure
    /\ UNCHANGED <<sagaVars, notifyVars, registerVars>>
    /\ UNCHANGED storeVars

Tick_HalfOpens ==
    /\ now < MaxTime
    /\ now' = now + 1
    /\ state' = IF state = "OPEN" /\ now + 1 > nextAttempt
                THEN "HALF_OPEN" ELSE state
    /\ UNCHANGED <<failures, nextAttempt, failureThreshold,
                   cooldownTime, failsSinceSuccess, lastCall, prevState>>
    /\ UNCHANGED <<sagaVars, notifyVars, registerVars>>
    /\ UNCHANGED storeVars

\* Date.now() moves on between two calls
Tick ==
    /\ now < MaxTime
    /\ now' = now + 1
    /\ UNCHANGED <<failures, state, nextAttempt, failureThreshold,
                   cooldownTime, failsSinceSuccess, lastCall, prevState>>
    /\ UNCHANGED <<sagaVars, notifyVars, registerVars>>
    /\ UNCHANGED storeVars

NextBreaker ==
    \/ canRequest
    \/ success
    \/ failure
    \/ Tick

InitBreakerSpec ==
    /\ InitSagaIdle /\ InitBreaker /\ InitNotifyIdle /\ InitRegisterIdle
    /\ InitStoreIdle

SpecBreaker == InitBreakerSpec /\ [][NextBreaker]_vars

\* ------------------------------------------------ notifyPreferencesInit
\* const breaker = new CircuitBreaker(): the module's breaker, built with
\* the constructor defaults; the clock counts milliseconds.
InitNotify ==
    /\ failures = 0
    /\ state = "CLOSED"
    /\ nextAttempt = 0
    /\ failureThreshold = DefaultThreshold
    /\ cooldownTime = DefaultCooldown
    /\ now = 0
    /\ failsSinceSuccess = 0
    /\ lastCall = "none"
    /\ prevState = "none"
    /\ npc = [n \in Calls |-> "idle"]
    /\ nfetch = [n \in Calls |-> NoReply]
    /\ nresult = [n \in Calls |-> NoResult]
    /\ nrecorded = [n \in Calls |-> <<>>]

\* What the fetch of /preferences/init settles with: a success response, a
\* non-success response, or a rejection.
NotifyReplies == {HttpReply(200, "none"), HttpReply(500, "none"), TransportError}

notifyBegin_SkipsBreaker(n) ==
    /\ npc[n] = "idle"
    /\ npc' = [npc EXCEPT ![n] = "fetch"]
    /\ UNCHANGED <<nresult, nfetch, nrecorded>>
    /\ UNCHANGED breakerVars

\* notifyPreferencesInit up to its await: breaker.canRequest(); when it
\* refuses, the fallback object is returned and no fetch is made, else the
\* fetch is in flight.
notifyBegin(n) ==
    /\ npc[n] = "idle"
    /\ breaker_canRequest
    /\ IF lastCall' = "canRequest:false"
       THEN /\ npc' = [npc EXCEPT ![n] = "done"]
            /\ nresult' = [nresult EXCEPT ![n] =
                  [ok |-> FALSE, fallback |-> TRUE, state |-> state']]
       ELSE /\ npc' = [npc EXCEPT ![n] = "fetch"]
            /\ nresult' = nresult
    /\ UNCHANGED <<nfetch, nrecorded>>

\* notifyPreferencesInit after its await: the fetch settled with reply.
\*   !res.ok            -> breaker.failure(), { ok: false, state }
\*   res.ok             -> breaker.success(), { ok: false, state }
\*   catch (rejection)  -> breaker.failure(), { ok: true, state }
notifyEnd(n, reply) ==
    /\ npc[n] = "fetch"
    /\ IF reply.kind = "response" /\ ResponseOk(reply.status)
       THEN /\ breaker_success
            /\ nrecorded' = [nrecorded EXCEPT ![n] = Append(@, "success")]
            /\ nresult' = [nresult EXCEPT ![n] =
                  [ok |-> FALSE, fallback |-> FALSE, state |-> state']]
       ELSE /\ breaker_failure
            /\ nrecorded' = [nrecorded EXCEPT ![n] = Append(@, "failure")]
            /\ nresult' = [nresult EXCEPT ![n] =
                  [ok |-> (reply.kind = "error"), fallback |-> FALSE,
                   state |-> state']]
    /\ nfetch' = [nfetch EXCEPT ![n] = reply]
    /\ npc' = [npc EXCEPT ![n] = "done"]

\* Calls are numbered in the order in which they are made.
CallArrives(n) == \A q \in Calls : q < n => npc[q] # "idle"

\* A caller invokes notifyPreferencesInit
NotifyStart(n) ==
    /\ CallArrives(n)
    /\ notifyBegin(n)
    /\ UNCHANGED <<sagaVars, registerVars>>
    /\ UNCHANGED storeVars

\* The fetch of call n settles and the call returns
NotifySettles(n, reply) ==
    /\ notifyEnd(n, reply)
    /\ UNCHANGED <<sagaVars, registerVars>>
    /\ UNCHANGED storeVars

\* The clock steps taken so far: one millisecond, or a whole cooldown
Elapsed == (now \div DefaultCooldown) + (now % DefaultCooldown)

\* Date.now() moves on by d milliseconds
Elapse(d) ==
    /\ Elapsed < MaxElapse
    /\ now' = now + d
    /\ UNCHANGED <<failures, state, nextAttempt, failureThreshold,
                   cooldownTime, failsSinceSuccess, lastCall, prevState>>
    /\ UNCHANGED <<sagaVars, notifyVars, registerVars>>
    /\ UNCHANGED storeVars

NextNotify ==
    \/ \E n \in Calls : NotifyStart(n)
    \/ \E n \in Calls, reply \in NotifyReplies : NotifySettles(n, reply)
    \/ \E d \in {1, DefaultCooldown} : Elapse(d)

InitNotifySpec ==
    InitSagaIdle /\ InitNotify /\ InitRegisterIdle /\ InitStoreIdle

SpecNotify == InitNotifySpec /\ [][NextNotify]_vars

\* -------------------------------------------------------- POST /register
\* The module's breaker after k earlier registrations whose notification
\* failed one after the other (k = DefaultThreshold: it has just opened).
BreakerAfterFailures(k) ==
    /\ failures = k
    /\ state = IF k >= DefaultThreshold THEN "OPEN" ELSE "CLOSED"
    /\ nextAttempt = IF k >= DefaultThreshold THEN DefaultCooldown ELSE 0
    /\ failureThreshold = DefaultThreshold
    /\ cooldownTime = DefaultCooldown
    /\ now = 0
    /\ failsSinceSuccess = k
    /\ lastCall = IF k = 0 THEN "none" ELSE "failure"
    /\ prevState = IF k = 0 THEN "none" ELSE "CLOSED"

\* An empty users collection, no request yet, the environment either a
\* test/CI run or not.
InitRegister ==
    /\ \E k \in 0..DefaultThreshold : BreakerAfterFailures(k)
    /\ npc = [n \in Calls |-> "idle"]
    /\ nfetch = [n \in Calls |-> NoReply]
    /\ nresult = [n \in Calls |-> NoResult]
    /\ nrecorded = [n \in Calls |-> <<>>]
    /\ docs = {}
    /\ rpc = [r \in Regs |-> "idle"]
    /\ remail = [r \in Regs |-> 0]
    /\ rid = [r \in Regs |-> 0]
    /\ rstatus = [r \in Regs |-> 0]
    /\ envTEST \in BOOLEAN
    /\ envCI \in BOOLEAN

\* Requests are numbered in the order in which they arrive.
RegArrives(r) == \A q \in Regs : q < r => rpc[q] # "idle"

\* result.insertedId: a newly generated ObjectId
InsertedId == Cardinality(docs) + 1

\* POST /register: the body is read and users.findOne({ email }) is issued
RegisterStart(r, e) ==
    /\ rpc[r] = "idle"
    /\ RegArrives(r)
    /\ rpc' = [rpc EXCEPT ![r] = "findOne"]
    /\ remail' = [remail EXCEPT ![r] = e]
    /\ UNCHANGED <<docs, rid, rstatus, envTEST, envCI>>
    /\ UNCHANGED <<sagaVars, breakerVars, notifyVars>>
    /\ UNCHANGED storeVars

\* users.findOne runs: 409 when a document has the email, else the password
\* hash is started.
RegisterFindOne(r) ==
    /\ rpc[r] = "findOne"
    /\ IF \E d \in docs : d.email = remail[r]
       THEN /\ rstatus' = [rstatus EXCEPT ![r] = 409]
            /\ rpc' = [rpc EXCEPT ![r] = "done"]
       ELSE /\ rstatus' = rstatus
            /\ rpc' = [rpc EXCEPT ![r] = "hash"]
    /\ UNCHANGED <<docs, remail, rid, envTEST, envCI>>
    /\ UNCHANGED <<sagaVars, breakerVars, notifyVars>>
    /\ UNCHANGED storeVars

\* Bun.password.hash resolves and users.insertOne is issued
RegisterHashed(r) ==
    /\ rpc[r] = "hash"
    /\ rpc' = [rpc EXCEPT ![r] = "insertOne"]
    /\ UNCHANGED <<docs, remail, rid, rstatus, envTEST, envCI>>
    /\ UNCHANGED <<sagaVars, breakerVars, notifyVars>>
    /\ UNCHANGED storeVars

\* users.insertOne runs and the handler resumes: in a test/CI environment it
\* answers 201 at once; else it calls notifyPreferencesInit, which either
\* returns the fallback (201) or has its fetch in flight.
RegisterInsertOne(r) ==
    /\ rpc[r] = "insertOne"
    /\ docs' = docs \cup {[id |-> InsertedId, email |-> remail[r]]}
    /\ rid' = [rid EXCEPT ![r] = InsertedId]
    /\ IF envTEST \/ envCI
       THEN /\ rstatus' = [rstatus EXCEPT ![r] = 201]
            /\ rpc' = [rpc EXCEPT ![r] = "done"]
            /\ UNCHANGED <<breakerVars, notifyVars>>
       ELSE IF ~envTEST
            THEN /\ notifyBegin(r)
                 /\ IF npc'[r] = "done"
                    THEN /\ rstatus' = [rstatus EXCEPT ![r] = 201]
                         /\ rpc' = [rpc EXCEPT ![r] = "done"]
                    ELSE /\ rstatus' = rstatus
                         /\ rpc' = [rpc EXCEPT ![r] = "notify"]
            ELSE /\ rstatus' = [rstatus EXCEPT ![r] = 201]
                 /\ rpc' = [rpc EXCEPT ![r] = "done"]
                 /\ UNCHANGED <<breakerVars, notifyVars>>
    /\ UNCHANGED <<remail, envTEST, envCI>>
    /\ UNCHANGED sagaVars
    /\ UNCHANGED storeVars

RegisterNotified_FailsWhenNotOk(r, reply) ==
    /\ rpc[r] = "notify"
    /\ notifyEnd(r, reply)
    /\ rstatus' = [rstatus EXCEPT ![r] = IF nresult'[r].ok THEN 201 ELSE 500]
    /\ rpc' = [rpc EXCEPT ![r] = "done"]
    /\ UNCHANGED <<docs, remail, rid, envTEST, envCI>>
    /\ UNCHANGED sagaVars
    /\ UNCHANGED storeVars

\* The fetch of notifyPreferencesInit settles, the call returns (a result
\* that is not ok is only logged) and the handler answers 201.
RegisterNotified(r, reply) ==
    /\ rpc[r] = "notify"
    /\ notifyEnd(r, reply)
    /\ rstatus' = [rstatus EXCEPT ![r] = 201]
    /\ rpc' = [rpc EXCEPT ![r] = "done"]
    /\ UNCHANGED <<docs, remail, rid, envTEST, envCI>>
    /\ UNCHANGED sagaVars
    /\ UNCHANGED storeVars

NextRegister ==
    \/ \E r \in Regs, e \in Emails : RegisterStart(r, e)
    \/ \E r \in Regs : RegisterFindOne(r)
    \/ \E r \in Regs : RegisterHashed(r)
    \/ \E r \in Regs : RegisterInsertOne(r)
    \/ \E r \in Regs, reply \in NotifyReplies : RegisterNotified(r, reply)
    \/ \E d \in {1, DefaultCooldown} : Elapse(d)

InitRegisterSpec == InitSagaIdle /\ InitRegister /\ InitStoreIdle

SpecRegister == InitRegisterSpec /\ [][NextRegister]_vars

\* The runtime resumes a handler whose database call or password hash has
\* resolved; nothing makes the notifications collaborator answer, and the
\* fetch of notifyPreferencesInit carries no timeout or abort signal.
RegisterFairness ==
    \A r \in Regs :
        WF_vars(RegisterFindOne(r) \/ RegisterHashed(r) \/ RegisterInsertOne(r))

SpecRegisterFair ==
    InitRegisterSpec /\ [][NextRegister]_vars /\ RegisterFairness

\* No POST /login is made and no login_attempts key exists
InitThrottleIdle ==
    /\ counter = [e \in LoginEmails |-> NoCounter]
    /\ windowStart = [e \in LoginEmails |-> 0]
    /\ lpc = [l \in Logins |-> "idle"]
    /\ lemail = [l \in Logins |-> 0]
    /\ lgood = [l \in Logins |-> FALSE]
    /\ lattempts = [l \in Logins |-> 0]
    /\ lstatus = [l \in Logins |-> 0]
    /\ lread = [l \in Logins |-> FALSE]
    /\ nlogins = 0
    /\ reached = [e \in LoginEmails |-> 0]

throttleVars == <<counter, windowStart, lpc, lemail, lgood, lattempts,
                  lstatus, lread, nlogins, reached>>

\* ------------------------------------------ GET /internal/users/{id}
\* lib/redis exports a client (or null in a test/CI environment) whose
\* connection was made; the cache is empty, the users collection holds some
\* records, no request was made; the clock counts seconds.
InitCache ==
    /\ redis \in BOOLEAN
    /\ storeUp = redis
    /\ cache = [k \in CacheKeys |-> NoEntry]
    /\ version = [u \in UserIds |-> 0]
    /\ body = [r \in Reqs |-> NoBody]
    /\ dbReads = [r \in Reqs |-> 0]
    /\ cacheOps = [r \in Reqs |-> <<>>]
    /\ readAt = [r \in Reqs |-> -1]
    /\ InitThrottleIdle
    /\ users = UserIds
    /\ nextId = MaxUsers + 1
    /\ debts = [u \in UserIds |-> "norecords"]
    /\ pc = [r \in Reqs |-> "idle"]
    /\ method = [r \in Reqs |-> "NONE"]
    /\ reqId = [r \in Reqs |-> BadId]
    /\ tokenSub = [r \in Reqs |-> NoToken]
    /\ status = [r \in Reqs |-> 0]
    /\ debtRes = [r \in Reqs |-> NoReply]
    /\ deletedCount = [r \in Reqs |-> -1]
    /\ analytics = [r \in Reqs |-> "none"]
    /\ log = {}

\* Redis keeps a key written with EX seconds until that many seconds have
\* passed since the write.
Live(e) == e # NoEntry /\ now < e.exp

\* what the frame of a step of request r leaves alone
CacheFrame ==
    /\ UNCHANGED <<users, nextId, debts, tokenSub, debtRes, deletedCount,
                   analytics, log>>
    /\ UNCHANGED <<breakerVars, notifyVars, registerVars>>

\* GET /internal/users/{id} requests being handled
ReadsInFlight == Cardinality({q \in Reqs : pc[q] \notin {"idle", "done"}})

\* GET /internal/users/{id}: 400 for an invalid id; else redis.get is issued
\* when the client is not null, users.findOne otherwise.
InternalGetStart(r, id) ==
    /\ pc[r] = "idle"
    /\ Arrives(r)
    /\ ReadsInFlight < MaxInFlight
    /\ method' = [method EXCEPT ![r] = "INTERNAL"]
    /\ reqId' = [reqId EXCEPT ![r] = id]
    /\ IF ~ObjectIdIsValid(id)
       THEN /\ status' = [status EXCEPT ![r] = 400]
            /\ pc' = [pc EXCEPT ![r] = "done"]
            /\ cacheOps' = cacheOps
       ELSE /\ status' = status
            /\ IF redis
               THEN /\ pc' = [pc EXCEPT ![r] = "cacheGet"]
                    /\ cacheOps' = [cacheOps EXCEPT ![r] = Append(@, "get")]
               ELSE /\ pc' = [pc EXCEPT ![r] = "internalFindOne"]
                    /\ cacheOps' = cacheOps
    /\ UNCHANGED <<redis, storeUp, cache, version, body, dbReads, readAt, throttleVars>>
    /\ CacheFrame

CacheGetSettles_AlwaysMisses(r) ==
    /\ pc[r] = "cacheGet"
    /\ IF storeUp
       THEN /\ pc' = [pc EXCEPT ![r] = "internalFindOne"]
            /\ UNCHANGED <<status, body>>
       ELSE /\ status' = [status EXCEPT ![r] = 500]
            /\ pc' = [pc EXCEPT ![r] = "done"]
            /\ body' = body
    /\ UNCHANGED <<redis, storeUp, cache, version, dbReads, cacheOps, readAt, throttleVars>>
    /\ UNCHANGED <<method, reqId>>
    /\ CacheFrame

\* redis.get settles. The server answers: a live entry is parsed and
\* returned, else users.findOne is issued. The server does not answer: the
\* command rejects, nothing catches it and the framework answers 500.
CacheGetSettles(r) ==
    /\ pc[r] = "cacheGet"
    /\ IF storeUp
       THEN IF Live(cache[reqId[r]])
            THEN /\ body' = [body EXCEPT ![r] = JSONparse(cache[reqId[r]].val)]
                 /\ status' = [status EXCEPT ![r] = 200]
                 /\ pc' = [pc EXCEPT ![r] = "done"]
            ELSE /\ pc' = [pc EXCEPT ![r] = "internalFindOne"]
                 /\ UNCHANGED <<status, body>>
       ELSE /\ status' = [status EXCEPT ![r] = 500]
            /\ pc' = [pc EXCEPT ![r] = "done"]
            /\ body' = body
    /\ UNCHANGED <<redis, storeUp, cache, version, dbReads, cacheOps, readAt, throttleVars>>
    /\ UNCHANGED <<method, reqId>>
    /\ CacheFrame

InternalFindOne_NoWriteBack(r) ==
    /\ pc[r] = "internalFindOne"
    /\ dbReads' = [dbReads EXCEPT ![r] = @ + 1]
    /\ IF reqId[r] \notin users
       THEN /\ status' = [status EXCEPT ![r] = 404]
            /\ body' = body
       ELSE /\ body' = [body EXCEPT ![r] =
                          Projection(reqId[r], version[reqId[r]])]
            /\ status' = [status EXCEPT ![r] = 200]
    /\ pc' = [pc EXCEPT ![r] = "done"]
    /\ UNCHANGED <<redis, storeUp, cache, version, cacheOps, readAt, throttleVars>>
    /\ UNCHANGED <<method, reqId>>
    /\ CacheFrame

\* users.findOne runs and the handler resumes: 404 when there is no record;
\* else the response is built, and redis.set is issued when the client is
\* not null, the response returned otherwise.
InternalFindOne(r) ==
    /\ pc[r] = "internalFindOne"
    /\ dbReads' = [dbReads EXCEPT ![r] = @ + 1]
    /\ IF reqId[r] \notin users
       THEN /\ status' = [status EXCEPT ![r] = 404]
            /\ pc' = [pc EXCEPT ![r] = "done"]
            /\ UNCHANGED <<body, cacheOps, readAt>>
       ELSE /\ body' = [body EXCEPT ![r] =
                          Projection(reqId[r], version[reqId[r]])]
            /\ IF redis
               THEN /\ pc' = [pc EXCEPT ![r] = "cacheSet"]
                    /\ cacheOps' = [cacheOps EXCEPT ![r] = Append(@, "set")]
                    /\ readAt' = [readAt EXCEPT ![r] = now]
                    /\ status' = status
               ELSE /\ pc' = [pc EXCEPT ![r] = "done"]
                    /\ cacheOps' = cacheOps
                    /\ readAt' = readAt
                    /\ status' = [status EXCEPT ![r] = 200]
    /\ UNCHANGED <<redis, storeUp, cache, version, throttleVars>>
    /\ UNCHANGED <<method, reqId>>
    /\ CacheFrame

\* redis.set settles. The server answers: the entry is written with its
\* expiry and the response returned. The server does not answer: the
\* command rejects and the framework answers 500.
CacheSetSettles(r) ==
    /\ pc[r] = "cacheSet"
    /\ IF storeUp
       THEN /\ cache' = [cache EXCEPT ![reqId[r]] =
                  [val |-> JSONstringify(body[r]), exp |-> now + CacheTtl,
                   at |-> readAt[r]]]
            /\ status' = [status EXCEPT ![r] = 200]
       ELSE /\ cache' = cache
            /\ status' = [status EXCEPT ![r] = 500]
    /\ readAt' = [readAt EXCEPT ![r] = -1]
    /\ pc' = [pc EXCEPT ![r] = "done"]
    /\ UNCHANGED <<redis, storeUp, version, body, dbReads, cacheOps, throttleVars>>
    /\ UNCHANGED <<method, reqId>>
    /\ CacheFrame

\* The writes made so far to the records of the users in S: the changes of
\* a projected field and the deletions.
RECURSIVE Writes(_)
Writes(S) ==
    IF S = {} THEN 0
    ELSE LET u == CHOOSE x \in S : TRUE
         IN version[u] + (IF u \in users THEN 0 ELSE 1) + Writes(S \ {u})

UpdateProfile_DropsEntry(u) ==
    /\ u \in users
    /\ Writes(UserIds) < MaxEdits
    /\ version' = [version EXCEPT ![u] = @ + 1]
    /\ cache' = [cache EXCEPT ![u] = NoEntry]
    /\ UNCHANGED <<redis, storeUp, body, dbReads, cacheOps, readAt, throttleVars>>
    /\ UNCHANGED <<pc, method, reqId, status>>
    /\ CacheFrame

\* PATCH /{id}, PATCH /{id}/plan, PATCH /{id}/addons, the avatar change:
\* findOneAndUpdate / updateOne changes a projected field of the record of
\* user u
UpdateProfile(u) ==
    /\ u \in users
    /\ Writes(UserIds) < MaxEdits
    /\ version' = [version EXCEPT ![u] = @ + 1]
    /\ UNCHANGED <<redis, storeUp, cache, body, dbReads, cacheOps, readAt, throttleVars>>
    /\ UNCHANGED <<pc, method, reqId, status>>
    /\ CacheFrame

\* DELETE /{id}, SAGA PASO 2: users.deleteOne removes the record of user u
DeleteOne(u) ==
    /\ u \in users
    /\ Writes(UserIds) < MaxEdits
    /\ users' = users \ {u}
    /\ UNCHANGED <<redis, storeUp, cache, version, body, dbReads, cacheOps, readAt, throttleVars>>
    /\ UNCHANGED <<pc, method, reqId, status>>
    /\ UNCHANGED <<nextId, debts, tokenSub, debtRes, deletedCount, analytics,
                   log>>
    /\ UNCHANGED <<breakerVars, notifyVars, registerVars>>

\* The connection to the Redis server is lost
StoreFails ==
    /\ storeUp
    /\ storeUp' = FALSE
    /\ UNCHANGED <<redis, cache, version, body, dbReads, cacheOps, readAt, throttleVars>>
    /\ UNCHANGED <<pc, method, reqId, status>>
    /\ CacheFrame

\* redis.on("error"): the handler sets the exported client to null
RedisError ==
    /\ redis
    /\ ~storeUp
    /\ redis' = FALSE
    /\ UNCHANGED <<storeUp, cache, version, body, dbReads, cacheOps, readAt, throttleVars>>
    /\ UNCHANGED <<pc, method, reqId, status>>
    /\ CacheFrame

StoreRecovers_ReEnables ==
    /\ ~storeUp
    /\ storeUp' = TRUE
    /\ redis' = TRUE
    /\ UNCHANGED <<cache, version, body, dbReads, cacheOps, readAt, throttleVars>>
    /\ UNCHANGED <<pc, method, reqId, status>>
    /\ CacheFrame

\* retryStrategy: the client object reconnects after 50 ms and the server
\* answers again, whether or not the exported binding was set to null
StoreRecovers ==
    /\ ~storeUp
    /\ storeUp' = TRUE
    /\ UNCHANGED <<redis, cache, version, body, dbReads, cacheOps, readAt, throttleVars>>
    /\ UNCHANGED <<pc, method, reqId, status>>
    /\ CacheFrame

\* The clock is followed at the multiples of the TTL and one second before
\* each of them: 0, 59, 60, 119, ... Passed is the number of steps taken.
Passed == 2 * (now \div CacheTtl) + (IF now % CacheTtl = 0 THEN 0 ELSE 1)

\* d seconds pass
Pass(d) ==
    /\ Passed < MaxElapse
    /\ d = IF now % CacheTtl = 0 THEN CacheTtl - 1 ELSE 1
    /\ now' = now + d
    /\ UNCHANGED <<failures, state, nextAttempt, failureThreshold,
                   cooldownTime, failsSinceSuccess, lastCall, prevState>>
    /\ UNCHANGED <<sagaVars, notifyVars, registerVars, storeVars>>

NextCache ==
    \/ \E r \in Reqs, id \in PathIds : InternalGetStart(r, id)
    \/ \E r \in Reqs : CacheGetSettles(r)
    \/ \E r \in Reqs : InternalFindOne(r)
    \/ \E r \in Reqs : CacheSetSettles(r)
    \/ \E u \in UserIds : UpdateProfile(u)
    \/ StoreFails
    \/ RedisError
    \/ \E d \in {1, CacheTtl - 1} : Pass(d)

InitCacheSpec ==
    InitCache /\ InitBreakerIdle /\ InitNotifyIdle /\ InitRegisterIdle

SpecCache == InitCacheSpec /\ [][NextCache]_vars

\* ------------------------- GET /internal/users/{id} beside the writers
\* The client is connected and the server answers throughout; the records
\* are changed and deleted while reads are served, and the clock is followed
\* for MaxWait steps.
InitStale == InitCacheSpec /\ redis

\* d seconds pass
Wait(d) ==
    /\ Passed < MaxWait
    /\ d = IF now % CacheTtl = 0 THEN CacheTtl - 1 ELSE 1
    /\ now' = now + d
    /\ UNCHANGED <<failures, state, nextAttempt, failureThreshold,
                   cooldownTime, failsSinceSuccess, lastCall, prevState>>
    /\ UNCHANGED <<sagaVars, notifyVars, registerVars, storeVars>>

NextStale ==
    \/ \E r \in Reqs, id \in UserIds : InternalGetStart(r, id)
    \/ \E r \in Reqs : CacheGetSettles(r)
    \/ \E r \in Reqs : InternalFindOne(r)
    \/ \E r \in Reqs : CacheSetSettles(r)
    \/ \E u \in UserIds : UpdateProfile(u)
    \/ \E u \in UserIds : DeleteOne(u)
    \/ \E d \in {1, CacheTtl - 1} : Wait(d)

SpecStale == InitStale /\ [][NextStale]_vars

\* ------------------------------------------------------- POST /login
\* lib/redis exports a connected client (or null in a test/CI
\* environment); no login_attempts key exists; the user of email 1 is
\* registered or not; the clock counts seconds.
InitThrottle ==
    /\ redis \in BOOLEAN
    /\ storeUp = redis
    /\ cache = [k \in CacheKeys |-> NoEntry]
    /\ version = [u \in UserIds |-> 0]
    /\ body = [r \in Reqs |-> NoBody]
    /\ dbReads = [r \in Reqs |-> 0]
    /\ cacheOps = [r \in Reqs |-> <<>>]
    /\ readAt = [r \in Reqs |-> -1]
    /\ InitThrottleIdle
    /\ docs \in {{}, {[id |-> 1, email |-> 1]}}
    /\ rpc = [r \in Regs |-> "idle"]
    /\ remail = [r \in Regs |-> 0]
    /\ rid = [r \in Regs |-> 0]
    /\ rstatus = [r \in Regs |-> 0]
    /\ envTEST = FALSE
    /\ envCI = FALSE

\* Redis: the key exists (a key without expiry exists until it is deleted)
KeyLive(c) == c.count > 0 /\ (c.exp = 0 \/ now < c.exp)

\* A request is handled in the first slot that holds no request in flight.
FreeSlot(l) ==
    /\ lpc[l] \in {"idle", "done"}
    /\ \A q \in Logins : q < l => lpc[q] \notin {"idle", "done"}

\* what a step of a login request leaves alone
LoginFrame ==
    /\ UNCHANGED <<cache, version, body, dbReads, cacheOps, readAt>>
    /\ UNCHANGED <<sagaVars, breakerVars, notifyVars, registerVars>>

\* POST /login: the body is read; redis.incr is issued when the client is
\* not null, users.findOne otherwise.
LoginStart(l, e, good) ==
    /\ FreeSlot(l)
    /\ nlogins < MaxLogins
    /\ nlogins' = nlogins + 1
    /\ lemail' = [lemail EXCEPT ![l] = e]
    /\ lgood' = [lgood EXCEPT ![l] = good]
    /\ lattempts' = [lattempts EXCEPT ![l] = 0]
    /\ lstatus' = [lstatus EXCEPT ![l] = 0]
    /\ lread' = [lread EXCEPT ![l] = FALSE]
    /\ lpc' = [lpc EXCEPT ![l] = IF redis THEN "incr" ELSE "findOne"]
    /\ UNCHANGED <<redis, storeUp, counter, windowStart, reached>>
    /\ LoginFrame

IncrSettles_FailsClosed(l) ==
    /\ lpc[l] = "incr"
    /\ IF storeUp
       THEN LET c == counter[lemail[l]]
                v == IF KeyLive(c) THEN c.count + 1 ELSE 1
            IN /\ counter' = [counter EXCEPT ![lemail[l]] =
                     [count |-> v, exp |-> IF KeyLive(c) THEN c.exp ELSE 0]]
               /\ windowStart' = [windowStart EXCEPT ![lemail[l]] =
                     IF v = 1 THEN now ELSE @]
               /\ reached' = [reached EXCEPT ![lemail[l]] =
                     IF v = 1 THEN 1 ELSE IF v > AttemptLimit THEN @ ELSE @ + 1]
               /\ lattempts' = [lattempts EXCEPT ![l] =
                     IF (v = 1 /\ redis) \/ v > AttemptLimit THEN v ELSE 0]
               /\ IF v = 1 /\ redis
                  THEN /\ lpc' = [lpc EXCEPT ![l] = "expire"]
                       /\ lstatus' = lstatus
                  ELSE IF v > AttemptLimit
                       THEN /\ lpc' = [lpc EXCEPT ![l] = "done"]
                            /\ lstatus' = [lstatus EXCEPT ![l] = 429]
                       ELSE /\ lpc' = [lpc EXCEPT ![l] = "findOne"]
                            /\ lstatus' = lstatus
       ELSE /\ lpc' = [lpc EXCEPT ![l] = "done"]
            /\ lstatus' = [lstatus EXCEPT ![l] = 429]
            /\ UNCHANGED <<counter, windowStart, reached, lattempts>>
    /\ UNCHANGED <<redis, storeUp, lemail, lgood, lread, nlogins>>
    /\ LoginFrame

IncrSettles_RejectsFifth(l) ==
    /\ lpc[l] = "incr"
    /\ IF storeUp
       THEN LET c == counter[lemail[l]]
                v == IF KeyLive(c) THEN c.count + 1 ELSE 1
            IN /\ counter' = [counter EXCEPT ![lemail[l]] =
                     [count |-> v, exp |-> IF KeyLive(c) THEN c.exp ELSE 0]]
               /\ windowStart' = [windowStart EXCEPT ![lemail[l]] =
                     IF v = 1 THEN now ELSE @]
               /\ reached' = [reached EXCEPT ![lemail[l]] =
                     IF v = 1 THEN 1 ELSE IF v >= AttemptLimit THEN @ ELSE @ + 1]
               /\ lattempts' = [lattempts EXCEPT ![l] =
                     IF (v = 1 /\ redis) \/ v >= AttemptLimit THEN v ELSE 0]
               /\ IF v = 1 /\ redis
                  THEN /\ lpc' = [lpc EXCEPT ![l] = "expire"]
                       /\ lstatus' = lstatus
                  ELSE IF v >= AttemptLimit
                       THEN /\ lpc' = [lpc EXCEPT ![l] = "done"]
                            /\ lstatus' = [lstatus EXCEPT ![l] = 429]
                       ELSE /\ lpc' = [lpc EXCEPT ![l] = "findOne"]
                            /\ lstatus' = lstatus
       ELSE /\ lpc' = [lpc EXCEPT ![l] = "findOne"]
            /\ UNCHANGED <<counter, windowStart, reached, lattempts, lstatus>>
    /\ UNCHANGED <<redis, storeUp, lemail, lgood, lread, nlogins>>
    /\ LoginFrame

IncrSettles_AllowsSixth(l) ==
    /\ lpc[l] = "incr"
    /\ IF storeUp
       THEN LET c == counter[lemail[l]]
                v == IF KeyLive(c) THEN c.count + 1 ELSE 1
            IN /\ counter' = [counter EXCEPT ![lemail[l]] =
                     [count |-> v, exp |-> IF KeyLive(c) THEN c.exp ELSE 0]]
               /\ windowStart' = [windowStart EXCEPT ![lemail[l]] =
                     IF v = 1 THEN now ELSE @]
               /\ reached' = [reached EXCEPT ![lemail[l]] =
                     IF v = 1 THEN 1 ELSE IF v > AttemptLimit + 1 THEN @ ELSE @ + 1]
               /\ lattempts' = [lattempts EXCEPT ![l] =
                     IF (v = 1 /\ redis) \/ v > AttemptLimit + 1 THEN v ELSE 0]
               /\ IF v = 1 /\ redis
                  THEN /\ lpc' = [lpc EXCEPT ![l] = "expire"]
                       /\ lstatus' = lstatus
                  ELSE IF v > AttemptLimit + 1
                       THEN /\ lpc' = [lpc EXCEPT ![l] = "done"]
                            /\ lstatus' = [lstatus EXCEPT ![l] = 429]
                       ELSE /\ lpc' = [lpc EXCEPT ![l] = "findOne"]
                            /\ lstatus' = lstatus
       ELSE /\ lpc' = [lpc EXCEPT ![l] = "findOne"]
            /\ UNCHANGED <<counter, windowStart, reached, lattempts, lstatus>>
    /\ UNCHANGED <<redis, storeUp, lemail, lgood, lread, nlogins>>
    /\ LoginFrame

\* redis.incr settles. The server answers: INCR creates the key at 1 when
\* it does not exist (without expiry), else adds 1; attempts === 1 issues
\* redis.expire (a client set to null meanwhile makes that call throw into
\* the catch), attempts > 5 answers 429, else users.findOne is issued. The
\* server does not answer: the rejection is caught and findOne is issued.
\* attempts is local to the block: it is kept while redis.expire is awaited
\* and in the 429 answer.
IncrSettles(l) ==
    /\ lpc[l] = "incr"
    /\ IF storeUp
       THEN LET c == counter[lemail[l]]
                v == IF KeyLive(c) THEN c.count + 1 ELSE 1
            IN /\ counter' = [counter EXCEPT ![lemail[l]] =
                     [count |-> v, exp |-> IF KeyLive(c) THEN c.exp ELSE 0]]
               /\ windowStart' = [windowStart EXCEPT ![lemail[l]] =
                     IF v = 1 THEN now ELSE @]
               /\ reached' = [reached EXCEPT ![lemail[l]] =
                     IF v = 1 THEN 1 ELSE IF v > AttemptLimit THEN @ ELSE @ + 1]
               /\ lattempts' = [lattempts EXCEPT ![l] =
                     IF (v = 1 /\ redis) \/ v > AttemptLimit THEN v ELSE 0]
               /\ IF v = 1 /\ redis
                  THEN /\ lpc' = [lpc EXCEPT ![l] = "expire"]
                       /\ lstatus' = lstatus
                  ELSE IF v > AttemptLimit
                       THEN /\ lpc' = [lpc EXCEPT ![l] = "done"]
                            /\ lstatus' = [lstatus EXCEPT ![l] = 429]
                       ELSE /\ lpc' = [lpc EXCEPT ![l] = "findOne"]
                            /\ lstatus' = lstatus
       ELSE /\ lpc' = [lpc EXCEPT ![l] = "findOne"]
            /\ UNCHANGED <<counter, windowStart, reached, lattempts, lstatus>>
    /\ UNCHANGED <<redis, storeUp, lemail, lgood, lread, nlogins>>
    /\ LoginFrame

\* redis.expire settles: the server sets the key's expiry 60 s ahead, or it
\* does not answer and the rejection is caught; attempts is 1, so
\* users.findOne is issued either way.
ExpireSettles(l) ==
    /\ lpc[l] = "expire"
    /\ IF storeUp /\ KeyLive(counter[lemail[l]])
       THEN counter' = [counter EXCEPT ![lemail[l]].exp = now + ThrottleTtl]
       ELSE counter' = counter
    /\ lattempts' = [lattempts EXCEPT ![l] = 0]
    /\ lpc' = [lpc EXCEPT ![l] = "findOne"]
    /\ UNCHANGED <<redis, storeUp, windowStart, lemail, lgood,
                   lstatus, lread, nlogins, reached>>
    /\ LoginFrame

\* users.findOne({ email }) runs: 401 when there is no user, else
\* Bun.password.verify is started.
LoginFindOne(l) ==
    /\ lpc[l] = "findOne"
    /\ lread' = [lread EXCEPT ![l] = TRUE]
    /\ IF \E d \in docs : d.email = lemail[l]
       THEN /\ lpc' = [lpc EXCEPT ![l] = "verify"]
            /\ lstatus' = lstatus
       ELSE /\ lpc' = [lpc EXCEPT ![l] = "done"]
            /\ lstatus' = [lstatus EXCEPT ![l] = 401]
    /\ UNCHANGED <<redis, storeUp, counter, windowStart, lemail, lgood,
                   lattempts, nlogins, reached>>
    /\ LoginFrame

\* Bun.password.verify resolves: 401 for a wrong password, else signJwt
LoginVerify(l) ==
    /\ lpc[l] = "verify"
    /\ IF lgood[l]
       THEN /\ lpc' = [lpc EXCEPT ![l] = "sign"]
            /\ lstatus' = lstatus
       ELSE /\ lpc' = [lpc EXCEPT ![l] = "done"]
            /\ lstatus' = [lstatus EXCEPT ![l] = 401]
    /\ UNCHANGED <<redis, storeUp, counter, windowStart, lemail, lgood,
                   lattempts, lread, nlogins, reached>>
    /\ LoginFrame

\* signJwt resolves and the token is returned
LoginSign(l) ==
    /\ lpc[l] = "sign"
    /\ lpc' = [lpc EXCEPT ![l] = "done"]
    /\ lstatus' = [lstatus EXCEPT ![l] = 200]
    /\ UNCHANGED <<redis, storeUp, counter, windowStart, lemail, lgood,
                   lattempts, lread, nlogins, reached>>
    /\ LoginFrame

NextThrottle ==
    \/ \E l \in 1..MaxInFlight, e \in LoginEmails, good \in BOOLEAN :
          LoginStart(l, e, good)
    \/ \E l \in Logins : IncrSettles(l)
    \/ \E l \in Logins : ExpireSettles(l)
    \/ \E l \in Logins : LoginFindOne(l)
    \/ \E l \in Logins : LoginVerify(l)
    \/ \E l \in Logins : LoginSign(l)
    \/ StoreFails
    \/ StoreRecovers
    \/ RedisError
    \/ \E d \in {1, ThrottleTtl - 1} : Pass(d)

InitThrottleSpec ==
    InitSagaIdle /\ InitBreakerIdle /\ InitNotifyIdle /\ InitThrottle

SpecThrottle == InitThrottleSpec /\ [][NextThrottle]_vars

\* --------------------------------------- POST /login requests in a burst
\* The client is connected and the server answers throughout; the requests
\* for one email overlap.
InitBurst == InitThrottleSpec /\ redis

NextBurst ==
    \/ \E l \in Logins, e \in LoginEmails, good \in BOOLEAN :
          LoginStart(l, e, good)
    \/ \E l \in Logins : IncrSettles(l)
    \/ \E l \in Logins : ExpireSettles(l)
    \/ \E l \in Logins : LoginFindOne(l)
    \/ \E l \in Logins : LoginVerify(l)
    \/ \E l \in Logins : LoginSign(l)
    \/ \E d \in {1, ThrottleTtl - 1} : Pass(d)

SpecBurst == InitBurst /\ [][NextBurst]_vars

\* ----------------------------------- the exported client over its life
\* GET /internal/users/{id} and POST /login are served while the connection
\* is lost and made again and the error handler runs; the client starts
\* connected.
InitClient ==
    /\ InitCache /\ redis
    /\ InitBreakerIdle /\ InitNotifyIdle
    /\ docs = {[id |-> 1, email |-> 1]}
    /\ rpc = [r \in Regs |-> "idle"]
    /\ remail = [r \in Regs |-> 0]
    /\ rid = [r \in Regs |-> 0]
    /\ rstatus = [r \in Regs |-> 0]
    /\ envTEST = FALSE
    /\ envCI = FALSE

\* POST /login requests being handled
LoginsInFlight == Cardinality({l \in Logins : lpc[l] \notin {"idle", "done"}})

NextClient ==
    \/ \E r \in Reqs, id \in UserIds :
          LoginsInFlight + ReadsInFlight < MaxInFlight /\ InternalGetStart(r, id)
    \/ \E r \in Reqs : CacheGetSettles(r)
    \/ \E r \in Reqs : InternalFindOne(r)
    \/ \E r \in Reqs : CacheSetSettles(r)
    \/ \E l \in 1..MaxInFlight, e \in LoginEmails, good \in BOOLEAN :
          /\ nlogins < MaxInFlight
          /\ LoginsInFlight + ReadsInFlight < MaxInFlight
          /\ LoginStart(l, e, good)
    \/ \E l \in Logins : IncrSettles(l)
    \/ \E l \in Logins : ExpireSettles(l)
    \/ \E l \in Logins : LoginFindOne(l)
    \/ \E l \in Logins : LoginVerify(l)
    \/ \E l \in Logins : LoginSign(l)
    \/ StoreFails
    \/ StoreRecovers
    \/ RedisError

SpecClient == InitClient /\ [][NextClient]_vars

\* ------------------------------------------------- properties of the saga

CanDeleteFalse == HttpReply(200, "canDeleteFalse")
CanDeleteTrue == HttpReply(200, "canDeleteTrue")
NoRecords404 == HttpReply(404, "none")
Allowing == {CanDeleteTrue, NoRecords404}

\* the request left no trace of step 2 or step 3
NoLocalDelete(r) == deletedCount[r] = -1
NoCleanup(r) == analytics[r] = "none" /\ ~\E l \in log : l.req = r

\* C1: a debt check answered with success and canDelete=false ends the
\* request with 409; the step that receives the answer leaves the users
\* collection as it is, and the request never runs the local delete nor
\* issues the analytics cleanup.
C1_DebtsBlockDeletion ==
    /\ [](\A r \in Reqs : debtRes[r] = CanDeleteFalse =>
            /\ pc[r] = "done"
            /\ status[r] = 409
            /\ NoLocalDelete(r)
            /\ NoCleanup(r))
    /\ [][\A r \in Reqs :
            (debtRes[r] = NoReply /\ debtRes'[r] = CanDeleteFalse)
                => users' = users]_vars

C1_Witness ==
    \E r \in Reqs : /\ debtRes[r] = CanDeleteFalse
                    /\ status[r] = 409
                    /\ reqId[r] \in users

\* C2: a debt check that ends in a rejected fetch, or in a response whose
\* status is neither a success status nor 404, ends the request with 500;
\* the users collection is unchanged by that step, and the request never
\* runs the local delete nor issues the analytics cleanup.
FailClosedReply(reply) ==
    \/ reply.kind = "error"
    \/ /\ reply.kind = "response"
       /\ ~(reply.status >= 200 /\ reply.status <= 299)
       /\ reply.status # 404

C2_FailsClosed ==
    /\ [](\A r \in Reqs : FailClosedReply(debtRes[r]) =>
            /\ pc[r] = "done"
            /\ status[r] = 500
            /\ NoLocalDelete(r)
            /\ NoCleanup(r))
    /\ [][\A r \in Reqs :
            (debtRes[r] = NoReply /\ FailClosedReply(debtRes'[r]))
                => users' = users]_vars

C2_Witness ==
    \E r1, r2 \in Reqs :
        /\ debtRes[r1] = TransportError /\ status[r1] = 500
        /\ debtRes[r2] = HttpReply(500, "none") /\ status[r2] = 500
        /\ reqId[r1] \in users /\ reqId[r2] \in users

\* C3: after a debt check answered 404 the request goes on to the local
\* delete exactly as after canDelete=true: it is never answered 409 or 500,
\* and when the record exists the local delete removes it, reports one
\* deleted row and the response is 200.
C3_NoRecordsAllowsDeletion ==
    /\ [](\A r \in Reqs : debtRes[r] \in Allowing =>
            /\ pc[r] \in {"localDelete", "done"}
            /\ status[r] \in {0, 200, 404}
            /\ (pc[r] = "done" => status[r] # 0))
    /\ [][\A r \in Reqs :
            (/\ debtRes[r] \in Allowing
             /\ pc[r] = "localDelete" /\ pc'[r] = "done"
             /\ reqId[r] \in users)
                => /\ reqId[r] \notin users'
                   /\ deletedCount'[r] = 1
                   /\ status'[r] = 200]_vars

C3_Witness ==
    \E r \in Reqs : /\ debtRes[r] = NoRecords404
                    /\ deletedCount[r] = 1
                    /\ status[r] = 200
                    /\ reqId[r] \notin users

\* C4: within one request the local delete is issued only after the debt
\* check of that request settled with an allowing answer (canDelete=true or
\* 404), and the analytics cleanup is issued only after the local delete of
\* that request removed exactly one record.
C4_StepsInOrder ==
    \A r \in Reqs :
        /\ (pc[r] = "localDelete" \/ deletedCount[r] # -1)
              => debtRes[r] \in Allowing
        /\ (analytics[r] # "none" \/ \E l \in log : l.req = r)
              => deletedCount[r] = 1

C4_Witness ==
    \E r \in Reqs : /\ analytics[r] = "ok"
                    /\ debtRes[r] = CanDeleteTrue
                    /\ deletedCount[r] = 1

\* C5: when the debt check allowed the deletion and the local delete
\* affected zero rows, the request ends with 404 and no analytics cleanup
\* is issued.
C5_ZeroRowsIsNotFound ==
    \A r \in Reqs : deletedCount[r] = 0 =>
        /\ pc[r] = "done"
        /\ status[r] = 404
        /\ NoCleanup(r)

C5_Witness ==
    \E r \in Reqs : /\ deletedCount[r] = 0
                    /\ debtRes[r] \in Allowing
                    /\ status[r] = 404

\* C6: once the local delete removed the record the request is answered 200
\* while the analytics call is still pending, and the answer stays 200
\* whether the call later succeeds, returns a non-success status, is
\* rejected or never settles; a failed cleanup leaves exactly an alert line
\* in the log, a successful one an info line, and the record stays deleted.
C6_CleanupIsDetached ==
    \A r \in Reqs : analytics[r] # "none" =>
        /\ pc[r] = "done"
        /\ status[r] = 200
        /\ reqId[r] \notin users
        /\ (analytics[r] = "pending" => ~\E l \in log : l.req = r)
        /\ (analytics[r] \in {"notOk", "rejected"} =>
              {l \in log : l.req = r} =
                 {[req |-> r, user |-> reqId[r], level |-> "alert"]})
        /\ (analytics[r] = "ok" =>
              {l \in log : l.req = r} =
                 {[req |-> r, user |-> reqId[r], level |-> "info"]})

C6_Witness ==
    \E r \in Reqs :
        /\ analytics[r] = "rejected"
        /\ status[r] = 200
        /\ reqId[r] \notin users
        /\ \E l \in log : l.req = r /\ l.level = "alert"

\* C7: a DELETE whose token verifies but whose {id} is not a valid ObjectId
\* is answered 400, and one whose token's sub differs from {id} is answered
\* 403, in the step that receives the request: that step leaves the users
\* collection unchanged, and the request never contacts the expenses
\* collaborator, never runs the local delete and never issues the cleanup.
Authenticated(r) == tokenSub[r] \notin {NoToken, BadToken}

C7_RejectedBeforeCollaborators ==
    /\ [](\A r \in Reqs : (method[r] = "DELETE" /\ Authenticated(r)) =>
            /\ (reqId[r] = BadId => status[r] = 400)
            /\ ((reqId[r] # BadId /\ tokenSub[r] # reqId[r])
                    => status[r] = 403)
            /\ (status[r] \in {400, 403} =>
                    /\ pc[r] = "done"
                    /\ debtRes[r] = NoReply
                    /\ NoLocalDelete(r)
                    /\ NoCleanup(r)))
    /\ [][\A r \in Reqs :
            (method'[r] = "DELETE" /\ pc[r] = "idle"
                /\ status'[r] \in {400, 403})
                => users' = users]_vars

C7_Witness ==
    \E r1, r2 \in Reqs :
        /\ method[r1] = "DELETE" /\ status[r1] = 403
        /\ tokenSub[r1] \in users /\ reqId[r1] # tokenSub[r1]
        /\ method[r2] = "DELETE" /\ status[r2] = 400
        /\ Authenticated(r2)

\* C8: once a DELETE of a user was answered 200 the record of that user is
\* never in the users collection again, and every findOne that an
\* authenticated GET /users/{id} of that user runs from then on is answered
\* 404.
DeletedOk == { reqId[d] : d \in {x \in Reqs : method[x] = "DELETE"
                                               /\ status[x] = 200} }

C8_DeletedStaysDeleted ==
    /\ [](DeletedOk \cap users = {})
    /\ [][\A r \in Reqs :
            (/\ method[r] = "GET"
             /\ pc[r] = "findOne" /\ pc'[r] = "done"
             /\ reqId[r] \in DeletedOk)
                => status'[r] = 404]_vars

C8_Witness ==
    \E d, g \in Reqs :
        /\ method[d] = "DELETE" /\ status[d] = 200
        /\ method[g] = "GET" /\ reqId[g] = reqId[d]
        /\ tokenSub[g] = reqId[g]
        /\ status[g] = 404

\* C9: no user record is removed at a moment when the expenses
\* collaborator's current answer for that user is canDelete=false.
C9_NoDeletionWhileInDebt ==
    [][\A u \in UserIds :
          (u \in users /\ u \notin users') => debts[u] # "debt"]_vars

\* ---------------------------------------------- properties of the breaker

\* C10: after every call of failure() the state is OPEN exactly when the
\* number of failure() calls since the last success() call (since
\* construction if there was none) has reached failureThreshold; while that
\* number is below the threshold the state is CLOSED.
C10_OpensAtThreshold ==
    /\ [](failsSinceSuccess < failureThreshold => state = "CLOSED")
    /\ [][lastCall' = "failure" /\ failsSinceSuccess' # failsSinceSuccess
            => (state' = "OPEN" <=> failsSinceSuccess' >= failureThreshold)]_vars

C10_Witness ==
    /\ failureThreshold = 3
    /\ failsSinceSuccess = 3
    /\ lastCall = "failure"
    /\ state = "OPEN"

\* A step in which canRequest() / failure() was called
CanRequestCalled ==
    /\ lastCall' \in {"canRequest:true", "canRequest:false"}
    /\ now' = now
    /\ failsSinceSuccess' = failsSinceSuccess
FailureCalled ==
    /\ lastCall' = "failure"
    /\ failsSinceSuccess' = failsSinceSuccess + 1

\* C11: canRequest() returns false exactly when the state is OPEN and
\* now < openedAt + cooldownTime (the code keeps that sum in nextAttempt),
\* and then leaves the state OPEN; in every other case, now = nextAttempt
\* included, it returns true.
C11_RefusesOnlyBeforeCooldownEnd ==
    [][CanRequestCalled =>
          /\ (lastCall' = "canRequest:false"
                <=> (state = "OPEN" /\ now < nextAttempt))
          /\ (lastCall' = "canRequest:false" => state' = "OPEN")]_vars

\* C12: when the state is OPEN and the cooldown has elapsed since the
\* breaker opened (now >= nextAttempt), the next canRequest() moves the
\* state to HALF_OPEN and returns true.
C12_ProbesAfterCooldown ==
    [][(CanRequestCalled /\ state = "OPEN" /\ now >= nextAttempt) =>
          (state' = "HALF_OPEN" /\ lastCall' = "canRequest:true")]_vars

\* C13: after success(), called in whatever state, failures is 0 and the
\* state is CLOSED.
C13_SuccessCloses ==
    lastCall = "success" => (failures = 0 /\ state = "CLOSED")

C13_Witness ==
    /\ lastCall = "success"
    /\ prevState = "HALF_OPEN"
    /\ state = "CLOSED"
    /\ failures = 0

\* C14: one failure() in HALF_OPEN returns the state to OPEN and starts a
\* new cooldown at that moment, whatever the (positive) threshold.
C14_FailedProbeReopens ==
    /\ []((lastCall = "failure" /\ prevState = "HALF_OPEN") => state = "OPEN")
    /\ [][(FailureCalled /\ state = "HALF_OPEN") =>
            (state' = "OPEN" /\ nextAttempt' = now + cooldownTime)]_vars

C14_Witness ==
    /\ lastCall = "failure"
    /\ prevState = "HALF_OPEN"
    /\ state = "OPEN"
    /\ failureThreshold = 3
    /\ nextAttempt = now + cooldownTime

\* The changes of state the claim lists, each with the call that causes it
ListedTransition ==
    \/ /\ state = "CLOSED" /\ state' = "OPEN"
       /\ lastCall' = "failure" /\ failures' >= failureThreshold
    \/ /\ state = "OPEN" /\ state' = "HALF_OPEN"
       /\ lastCall' = "canRequest:true" /\ now > nextAttempt
    \/ /\ state = "HALF_OPEN" /\ state' = "CLOSED"
       /\ lastCall' = "success"
    \/ /\ state = "HALF_OPEN" /\ state' = "OPEN"
       /\ lastCall' = "failure"

\* C15 as stated: the breaker starts CLOSED, and whatever way the calls of
\* concurrent notifyPreferencesInit invocations interleave, every change of
\* state is CLOSED->OPEN, OPEN->HALF_OPEN, HALF_OPEN->CLOSED or
\* HALF_OPEN->OPEN.
C15_OnlyListedTransitions ==
    /\ []((\A n \in Calls : npc[n] = "idle") => state = "CLOSED")
    /\ [][state' # state => ListedTransition]_vars

\* C15 amended: every change of state is one of the four listed ones or
\* OPEN->CLOSED, made by the success() of a call that was admitted before
\* the breaker last opened.
C15_TransitionsWithLateSuccess ==
    /\ []((\A n \in Calls : npc[n] = "idle") => state = "CLOSED")
    /\ [][state' # state =>
            \/ ListedTransition
            \/ /\ state = "OPEN" /\ state' = "CLOSED"
               /\ lastCall' = "success"
               /\ \E n \in Calls : /\ npc[n] = "fetch" /\ npc'[n] = "done"
                                   /\ nrecorded'[n] = <<"success">>]_vars

C15_Witness ==
    /\ state = "CLOSED"
    /\ prevState = "OPEN"
    /\ lastCall = "success"
    /\ \E n \in Calls : npc[n] = "done" /\ nrecorded[n] = <<"success">>
    /\ \E n \in Calls : npc[n] = "done" /\ nresult[n].state = "OPEN"

\* C16: the state becomes HALF_OPEN only in a canRequest() call made while
\* OPEN with the cooldown elapsed; a step in which only time passes leaves
\* the state as it is, and success() and failure() never set HALF_OPEN.
C16_HalfOpenOnlyOnDemand ==
    /\ [][(state' = "HALF_OPEN" /\ state # "HALF_OPEN") =>
            /\ state = "OPEN"
            /\ now > nextAttempt
            /\ now' = now
            /\ lastCall' = "canRequest:true"]_vars
    /\ [][now' # now => state' = state]_vars
    /\ [][lastCall' \in {"success", "failure"} /\ now' = now
            => (state' = "HALF_OPEN" => state = "HALF_OPEN"
                                        /\ lastCall' = lastCall)]_vars

C16_Witness ==
    /\ state = "HALF_OPEN"
    /\ lastCall = "canRequest:true"
    /\ prevState = "OPEN"
    /\ now > nextAttempt

\* C17 as stated: in every reachable state, state = OPEN if and only if
\* openedAt is set, and failures >= failureThreshold held when it was set.
OpenedAtSet == nextAttempt # 0
SetsOpenedAt == nextAttempt' # nextAttempt

C17_OpenIffOpenedAt ==
    /\ [](state = "OPEN" <=> OpenedAtSet)
    /\ [][SetsOpenedAt => failures' >= failureThreshold]_vars

\* C17 amended: state = OPEN implies that openedAt is set, and whenever
\* openedAt is set the state becomes OPEN with failures >= failureThreshold;
\* openedAt stays set after the state has left OPEN.
C17_OpenImpliesOpenedAt ==
    /\ [](state = "OPEN" => OpenedAtSet)
    /\ [][SetsOpenedAt =>
            /\ state' = "OPEN"
            /\ failures' >= failureThreshold
            /\ nextAttempt' = now + cooldownTime]_vars

C17_Witness ==
    /\ state = "OPEN"
    /\ OpenedAtSet
    /\ lastCall = "failure"
    /\ failures >= failureThreshold

\* ---------------------------------- properties of notifyPreferencesInit
Fallback == [ok |-> FALSE, fallback |-> TRUE, state |-> "OPEN"]
\* call n is made in this step
CallStarts(n) == npc[n] = "idle" /\ npc'[n] # "idle"
\* call n has a fetch in flight or behind it
Fetched(n) == npc[n] = "fetch" \/ nfetch[n] # NoReply

\* C18: a call that canRequest() refuses returns in the same step with
\* fallback = true, ok = false, state = OPEN, starts no fetch and leaves
\* failures unchanged; a call that returned the fallback never fetched; and
\* on the default breaker the call made after three consecutive failed
\* calls, before the cooldown is over, is such a call.
C18_FallbackWithoutCall ==
    /\ [](\A n \in Calls : nresult[n].fallback =>
            /\ nresult[n] = Fallback
            /\ npc[n] = "done"
            /\ ~Fetched(n)
            /\ nrecorded[n] = <<>>)
    /\ [][\A n \in Calls :
            (CallStarts(n) /\ lastCall' = "canRequest:false") =>
                /\ nresult'[n] = Fallback
                /\ npc'[n] = "done"
                /\ failures' = failures
                /\ state' = "OPEN"]_vars
    /\ [][\A n \in Calls :
            (CallStarts(n) /\ failsSinceSuccess >= DefaultThreshold
                           /\ now < nextAttempt) =>
                nresult'[n] = Fallback]_vars

C18_Witness ==
    /\ \A n \in 1..DefaultThreshold : /\ npc[n] = "done"
                                      /\ nrecorded[n] = <<"failure">>
    /\ npc[DefaultThreshold + 1] = "done"
    /\ nresult[DefaultThreshold + 1] = Fallback
    /\ failures = DefaultThreshold
    /\ now = 0

\* C19: a call the breaker admitted returns ok = true exactly when its fetch
\* settled with a success response, and then it called success() once and
\* returns state CLOSED; after a non-success response or a rejected fetch
\* it called failure() exactly once and returns ok = false.
C19_OkIffRemoteSuccess ==
    \A n \in Calls : (npc[n] = "done" /\ Fetched(n)) =>
        LET good == nfetch[n].kind = "response" /\ ResponseOk(nfetch[n].status)
        IN /\ nresult[n].ok <=> good
           /\ good => /\ nrecorded[n] = <<"success">>
                      /\ nresult[n].state = "CLOSED"
           /\ ~good => nrecorded[n] = <<"failure">>

\* ------------------------------------------------ properties of /register
\* the document a request inserted
Inserted(r) == [id |-> rid[r], email |-> remail[r]]

\* C20: a registration whose findOne found no document with the email
\* inserts its record, and once it has, it is answered 201 and nothing
\* else, whatever the notification step does (success response, non-success
\* response, rejected fetch, fallback of the open breaker); no step removes
\* a document, and 409 is the only other answer, given without an insert.
C20_RegistrationIgnoresNotification ==
    /\ [](\A r \in Regs :
            /\ rstatus[r] \in {0, 201, 409}
            /\ rstatus[r] = 409 => rid[r] = 0
            /\ rid[r] # 0 => Inserted(r) \in docs
            /\ (rpc[r] = "done" /\ rid[r] # 0) => rstatus[r] = 201)
    /\ [][\A r \in Regs :
            (rpc[r] = "findOne" /\ rpc'[r] # "findOne"
                /\ ~\E d \in docs : d.email = remail[r])
            => rpc'[r] = "hash"]_vars
    /\ [][docs \subseteq docs']_vars

\* C21: once a registration has inserted its record it eventually answers
\* 201, also when the notification call never produces a response.
C21_RegistrationNeverBlocked ==
    \A r \in Regs : (rid[r] # 0) ~> (rstatus[r] = 201)

C20_Witness ==
    \E r1, r2 \in Regs :
        /\ rpc[r1] = "done" /\ rstatus[r1] = 201 /\ Inserted(r1) \in docs
        /\ nfetch[r1] = TransportError
        /\ rpc[r2] = "done" /\ rstatus[r2] = 201 /\ Inserted(r2) \in docs
        /\ nresult[r2] = Fallback

\* ----------------------------- properties of GET /internal/users/{id}
InternalDone(r) == method[r] = "INTERNAL" /\ pc[r] = "done"
\* steps of request r: its redis.get, its findOne, its redis.set settles
GetAnswered(r) == pc[r] = "cacheGet" /\ pc'[r] # "cacheGet"
RecordRead(r) == pc[r] = "internalFindOne" /\ pc'[r] # "internalFindOne"
SetAnswered(r) == pc[r] = "cacheSet" /\ pc'[r] # "cacheSet"
\* request r read the record and wrote the projection to the cache
Filled(r) ==
    InternalDone(r) /\ cacheOps[r] = <<"get", "set">> /\ status[r] = 200

\* C22: with the store answering, a redis.get that finds user:{id} present
\* ends the request with 200 and the stored projection, without a findOne;
\* a read of an id that an earlier read filled, answered less than 60 s
\* after the start of the behaviour (so less than 60 s after the fill), is
\* such a hit.
C22_HitSkipsRecord ==
    /\ [][\A r \in Reqs :
            (GetAnswered(r) /\ storeUp /\ Live(cache[reqId[r]])) =>
                /\ pc'[r] = "done"
                /\ status'[r] = 200
                /\ body'[r] = JSONparse(cache[reqId[r]].val)
                /\ dbReads'[r] = 0]_vars
    /\ [][\A r \in Reqs :
            (GetAnswered(r) /\ storeUp /\ now < CacheTtl
                /\ \E q \in Reqs : Filled(q) /\ reqId[q] = reqId[r]) =>
                /\ status'[r] = 200
                /\ dbReads'[r] = 0
                /\ \E q \in Reqs : Filled(q) /\ body'[r] = body[q]]_vars
    /\ [](\A r \in Reqs :
            (InternalDone(r) /\ status[r] = 200 /\ dbReads[r] = 0) =>
                /\ cacheOps[r] = <<"get">>
                /\ body[r].id = reqId[r])

C22_Witness ==
    \E q, r \in Reqs :
        /\ Filled(q)
        /\ InternalDone(r) /\ cacheOps[r] = <<"get">> /\ status[r] = 200
        /\ dbReads[r] = 0
        /\ body[r] = body[q]
        /\ body[r] # Projection(reqId[r], version[reqId[r]])
        /\ now = CacheTtl - 1

\* C23: with the store answering, a redis.get that finds no live entry
\* (never written, or written 60 s ago or earlier) is followed by exactly
\* one findOne; when the record exists the projection is written under
\* user:{id} with an expiry 60 s ahead in the step that returns 200, and
\* when it does not the request ends with 404 and the cache is untouched.
C23_MissReadsOnceAndFills ==
    /\ [](\A r \in Reqs : dbReads[r] <= 1)
    /\ [][\A r \in Reqs :
            (GetAnswered(r) /\ storeUp /\ ~Live(cache[reqId[r]])) =>
                /\ pc'[r] = "internalFindOne"
                /\ status'[r] = 0]_vars
    /\ [][\A r \in Reqs :
            (RecordRead(r) /\ redis) =>
                /\ dbReads'[r] = dbReads[r] + 1
                /\ cache' = cache
                /\ IF reqId[r] \in users
                   THEN /\ pc'[r] = "cacheSet"
                        /\ status'[r] = 0
                        /\ body'[r] = Projection(reqId[r], version[reqId[r]])
                   ELSE /\ pc'[r] = "done"
                        /\ status'[r] = 404
                        /\ cacheOps'[r] = cacheOps[r]]_vars
    /\ [][\A r \in Reqs :
            (SetAnswered(r) /\ storeUp) =>
                /\ status'[r] = 200
                /\ cache'[reqId[r]].val = JSONstringify(body[r])
                /\ cache'[reqId[r]].exp = now + CacheTtl]_vars

C23_Witness ==
    \E q, r \in Reqs :
        /\ q # r /\ reqId[q] = reqId[r]
        /\ Filled(q) /\ Filled(r)
        /\ dbReads[r] = 1
        /\ now = CacheTtl
        /\ cache[reqId[r]].exp = CacheTtl + CacheTtl
        /\ body[q] # body[r]

\* C24: a request for a valid id never ends with a server error because a
\* Redis command failed: it ends with the projection or with not-found.
C24_StoreFailureIsSwallowed ==
    \A r \in Reqs :
        (InternalDone(r) /\ ObjectIdIsValid(reqId[r])) =>
            /\ status[r] \in {200, 404}
            /\ status[r] = 200 => body[r] # NoBody

\* C25: a request made while the client is null or the server does not
\* answer issues no Redis command and ends as without a cache: 200 with the
\* projection of the record as findOne reads it, or 404.
C25_UnreachableIsCacheless ==
    /\ [][\A r \in Reqs :
            (pc[r] = "idle" /\ method'[r] = "INTERNAL"
                /\ ObjectIdIsValid(reqId'[r]) /\ (~redis \/ ~storeUp)) =>
                /\ pc'[r] = "internalFindOne"
                /\ cacheOps'[r] = <<>>]_vars
    /\ [][\A r \in Reqs :
            (RecordRead(r) /\ (~redis \/ ~storeUp)) =>
                /\ pc'[r] = "done"
                /\ cacheOps'[r] = cacheOps[r]
                /\ IF reqId[r] \in users
                   THEN /\ status'[r] = 200
                        /\ body'[r] = Projection(reqId[r], version[reqId[r]])
                   ELSE status'[r] = 404]_vars

\* This step is the one in which redis.incr of request l settles.
IncrAnswered(l) == lpc[l] = "incr" /\ lpc'[l] # "incr"
\* This step is the one in which redis.expire of request l settles.
ExpireAnswered(l) == lpc[l] = "expire" /\ lpc'[l] # "expire"
\* Request l goes on to the credential check: users.findOne is next.
Proceeds(l) == lpc'[l] = "findOne" /\ lstatus'[l] = 0 /\ ~lread'[l]
\* Request l is answered 429 here.
RateLimited(l) == lpc'[l] = "done" /\ lstatus'[l] = 429

\* C26: when redis.incr is answered, the attempt whose post-increment value
\* is 1 to 5 goes on (to redis.expire for value 1, then to users.findOne and
\* the password check) and the attempt whose value is 6 or more is answered
\* 429 whatever its credentials, in that step, without having read the user
\* and without a token; an attempt made before 60 s have passed since the
\* first one of the window always counts in that window; 200 is only
\* answered after the user was read.
C26_SixthIsRejected ==
    /\ [][\A l \in Logins :
            (IncrAnswered(l) /\ storeUp) =>
                LET v == counter'[lemail[l]].count
                IN /\ v >= 1
                   /\ (now < windowStart[lemail[l]] + ThrottleTtl
                          /\ counter[lemail[l]].count > 0) =>
                         v = counter[lemail[l]].count + 1
                   /\ v = 1 =>
                         lpc'[l] \in {"expire", "findOne"} /\ lstatus'[l] = 0
                   /\ (v > 1 /\ v <= AttemptLimit) => Proceeds(l)
                   /\ v > AttemptLimit =>
                         RateLimited(l) /\ ~lread'[l] /\ lattempts'[l] = v]_vars
    /\ [](\A l \in Logins :
            /\ lstatus[l] = 429 => (~lread[l] /\ lattempts[l] > AttemptLimit)
            /\ lstatus[l] = 200 => (lread[l] /\ lgood[l]))

C26_Witness ==
    \E l \in Logins :
        /\ lpc[l] = "done" /\ lstatus[l] = 429
        /\ lgood[l]
        /\ \E d \in docs : d.email = lemail[l]
        /\ lattempts[l] = AttemptLimit + 1
        /\ now < windowStart[lemail[l]] + ThrottleTtl
        /\ counter[lemail[l]].exp = windowStart[lemail[l]] + ThrottleTtl

\* C27: once an email has been rate-limited, the attempt whose redis.incr is
\* answered when 60 s or more have passed since the first attempt of the
\* window gets the value 1, is not rate-limited and sets a new expiry.
C27_AllowedAgainAfterWindow ==
    [][\A l \in Logins :
          (IncrAnswered(l) /\ storeUp
              /\ counter[lemail[l]].count > AttemptLimit
              /\ now >= windowStart[lemail[l]] + ThrottleTtl) =>
              /\ counter'[lemail[l]].count = 1
              /\ ~RateLimited(l)
              /\ redis => lpc'[l] = "expire"]_vars

\* C28: the expiry of the key changes only when redis.expire of the attempt
\* with value 1 is answered, and then to now + 60; while the key exists no
\* step lowers the counter; and the key does not outlive the 60 s that
\* follow the first attempt of its window.
C28_WindowEndsAfterSixty ==
    /\ [][\A e \in LoginEmails :
            (counter'[e].exp # counter[e].exp /\ counter'[e].count > 0
                /\ counter'[e].count >= counter[e].count) =>
                \E l \in Logins :
                    /\ ExpireAnswered(l) /\ lemail[l] = e
                    /\ lattempts[l] = 1
                    /\ counter'[e].exp = now + ThrottleTtl]_vars
    /\ [][\A e \in LoginEmails :
            KeyLive(counter[e]) => counter'[e].count >= counter[e].count]_vars
    /\ [](\A e \in LoginEmails :
            KeyLive(counter[e]) => now < windowStart[e] + ThrottleTtl)

\* C29: a request that finds the client null issues no Redis command and
\* goes to users.findOne; a redis.incr or redis.expire that is rejected
\* leaves the request going to users.findOne; no request is answered 500,
\* and 429 is answered only on a counter value above 5 returned by Redis.
C29_ThrottleFailsOpen ==
    /\ [][\A l \in Logins :
            (lpc[l] \in {"idle", "done"} /\ lpc'[l] \notin {"idle", "done"}
                /\ ~redis) => Proceeds(l)]_vars
    /\ [][\A l \in Logins :
            ((IncrAnswered(l) \/ ExpireAnswered(l)) /\ ~storeUp) =>
                /\ Proceeds(l)
                /\ counter' = counter]_vars
    /\ [](\A l \in Logins :
            /\ lstatus[l] \in {0, 200, 401, 429}
            /\ lstatus[l] = 429 => lattempts[l] > AttemptLimit)

C29_Witness ==
    \E l \in Logins :
        /\ redis /\ ~storeUp
        /\ nlogins = 1
        /\ lpc[l] = "done" /\ lstatus[l] = 200
        /\ counter[lemail[l]].count = 0

\* C30: while the state is HALF_OPEN at most one call of
\* notifyPreferencesInit has its fetch in flight: a call that enters while
\* the probe has not reported is refused by canRequest().
C30_OneProbeInHalfOpen ==
    state = "HALF_OPEN" =>
        Cardinality({n \in Calls : npc[n] = "fetch"}) <= 1

\* C31: in every reachable state of a breaker built with a threshold of 1
\* or more, CLOSED implies failures < failureThreshold, OPEN or HALF_OPEN
\* implies failures >= failureThreshold, and failures is the number of
\* failure() calls since the last success().
C31_CounterMatchesState ==
    /\ state = "CLOSED" => failures < failureThreshold
    /\ state \in {"OPEN", "HALF_OPEN"} => failures >= failureThreshold
    /\ failures = failsSinceSuccess

C31_Witness ==
    /\ state = "HALF_OPEN"
    /\ failures > failureThreshold
    /\ failsSinceSuccess = failures

\* C32: failure() called while the state is OPEN leaves it OPEN and sets
\* nextAttempt to now + cooldownTime; no step moves nextAttempt to an
\* earlier instant.
C32_LateFailureRestartsCooldown ==
    /\ [][(FailureCalled /\ state = "OPEN") =>
             /\ state' = "OPEN"
             /\ nextAttempt' = now + cooldownTime]_vars
    /\ [][nextAttempt' >= nextAttempt]_vars

C32_Witness ==
    /\ lastCall = "failure"
    /\ prevState = "OPEN"
    /\ state = "OPEN"
    /\ failures > failureThreshold
    /\ nextAttempt = now + cooldownTime
    /\ now > 0

\* DELETE requests for user u whose users.deleteOne has run
DeletesOf(u) ==
    {r \in Reqs : method[r] = "DELETE" /\ reqId[r] = u /\ deletedCount[r] # -1}

\* C33: of the DELETE requests for one user that passed the debt check and
\* ran users.deleteOne, at most one is answered 200 (the one that deleted
\* the row), every other one is answered 404, and at most one of them has
\* issued the analytics cleanup.
C33_OneDeleteWins ==
    \A u \in UserIds :
        /\ Cardinality({r \in DeletesOf(u) : status[r] = 200}) <= 1
        /\ Cardinality({r \in DeletesOf(u) : deletedCount[r] = 1}) <= 1
        /\ Cardinality({r \in DeletesOf(u) : analytics[r] # "none"}) <= 1
        /\ \A r \in DeletesOf(u) :
              /\ debtRes[r] \in Allowing
              /\ status[r] \in {200, 404}
              /\ status[r] = 200 <=> deletedCount[r] = 1
              /\ status[r] = 404 => NoCleanup(r)

C33_Witness ==
    \E r, q \in Reqs :
        /\ r # q
        /\ r \in DeletesOf(reqId[r]) /\ q \in DeletesOf(reqId[r])
        /\ status[r] = 404 /\ status[q] = 200
        /\ r < q
        /\ analytics[q] # "none"

\* a success response of the debt check whose body is not what the
\* collaborator documents
Unusable == {HttpReply(200, "unparsable"), HttpReply(200, "noData")}
Denying == {HttpReply(200, "noCanDelete"), HttpReply(200, "canDeleteFalse")}

\* C34: a success response whose body cannot be parsed or carries no data
\* object ends the request with 500, one whose data has no canDelete or a
\* falsy one ends it with 409, both without the local delete and the
\* cleanup; users.deleteOne runs only after canDelete = true or a 404.
C34_MalformedAnswerFailsClosed ==
    \A r \in Reqs :
        /\ debtRes[r] \in Unusable =>
              /\ pc[r] = "done" /\ status[r] = 500
              /\ NoLocalDelete(r) /\ NoCleanup(r)
        /\ debtRes[r] \in Denying =>
              /\ pc[r] = "done" /\ status[r] = 409
              /\ NoLocalDelete(r) /\ NoCleanup(r)
        /\ (method[r] = "DELETE" /\ ~NoLocalDelete(r)) =>
              debtRes[r] \in Allowing

C34_Witness ==
    \E r, q \in Reqs :
        /\ debtRes[r] = HttpReply(200, "noData") /\ status[r] = 500
        /\ debtRes[q] = HttpReply(200, "noCanDelete") /\ status[q] = 409
        /\ reqId[r] \in users /\ reqId[q] \in users
        /\ debts[reqId[q]] = "clear"

\* the console lines written for request r
LinesOf(r) == {l \in log : l.req = r}

\* C35: a request whose analytics call settled deleted the record and has
\* exactly one console line: the success line after a success response, a
\* consistency alert naming the user after a non-success response or a
\* rejection; a request whose call is pending, or that ended before or in
\* the local delete without deleting, has none.
C35_OneLogLinePerCleanup ==
    /\ \A r \in Reqs :
          IF analytics[r] \in {"ok", "notOk", "rejected"}
          THEN /\ deletedCount[r] = 1
               /\ Cardinality(LinesOf(r)) = 1
               /\ \A l \in LinesOf(r) :
                     /\ l.user = reqId[r]
                     /\ l.level = "info" <=> analytics[r] = "ok"
                     /\ l.level = "alert" <=> analytics[r] \in {"notOk", "rejected"}
          ELSE LinesOf(r) = {}
    /\ \A l \in log : l.req \in Reqs /\ deletedCount[l.req] = 1

C35_Witness ==
    \E r, q \in Reqs :
        /\ analytics[r] = "notOk"
        /\ LinesOf(r) = {[req |-> r, user |-> reqId[r], level |-> "alert"]}
        /\ method[q] = "DELETE" /\ pc[q] = "done"
        /\ status[q] \in {404, 409, 500}
        /\ LinesOf(q) = {}

\* ------------------- properties of the cache entry beside the writers
\* Request r is answered from the cache in this step.
Hit(r) == GetAnswered(r) /\ status'[r] = 200
\* The entry under user:{k} changes only in the step in which the redis.set
\* of a request for k settles, to the projection that request read.
WrittenByMissOnly ==
    \A k \in CacheKeys :
        cache'[k] # cache[k] =>
            \E r \in Reqs :
                /\ SetAnswered(r) /\ reqId[r] = k
                /\ cache'[k] = [val |-> JSONstringify(body[r]),
                                exp |-> now + CacheTtl,
                                at |-> readAt[r]]
\* A change or a deletion of a record leaves every entry as it is.
WritersLeaveCache == (version' # version \/ users' # users) => cache' = cache

\* C36: the entry user:{id} changes only when the redis.set of a miss
\* settles; a change or deletion of the record neither rewrites nor removes
\* it. A request answered from the cache returns the entry's projection,
\* which was written less than 60 s earlier and was read from the record
\* no later than it was written.
C36_StaleForSixtyAfterWrite ==
    /\ [][WrittenByMissOnly]_vars
    /\ [][WritersLeaveCache]_vars
    /\ [][\A r \in Reqs :
            Hit(r) =>
                LET e == cache[reqId[r]]
                IN /\ body'[r] = JSONparse(e.val)
                   /\ now - (e.exp - CacheTtl) < CacheTtl
                   /\ e.at >= 0
                   /\ e.at <= e.exp - CacheTtl]_vars

\* a request was answered from the cache with the projection of a record
\* that was deleted after the fill
C36_Witness ==
    \E q, r \in Reqs :
        /\ Filled(q)
        /\ InternalDone(r) /\ cacheOps[r] = <<"get">> /\ status[r] = 200
        /\ reqId[r] = reqId[q]
        /\ body[r] = body[q]
        /\ reqId[r] \notin users

\* C36 as stated: the same frame, and a request answered from the cache
\* never returns a projection that was read from the record more than 60 s
\* earlier.
C36_ReadWithinSixty ==
    /\ [][WrittenByMissOnly]_vars
    /\ [][WritersLeaveCache]_vars
    /\ [][\A r \in Reqs :
            Hit(r) => now - cache[reqId[r]].at <= CacheTtl]_vars

\* ------------------------------------- properties of the throttle key
\* No login request is between its redis.incr and the end of its try block.
NoThrottleBlockOpen == \A l \in Logins : lpc[l] \notin {"incr", "expire"}

\* C37: whenever no login request is inside its throttling block, every
\* login_attempts key that exists in the store has an expiry, also after
\* store commands failed.
C37_EveryKeyExpires ==
    NoThrottleBlockOpen =>
        \A e \in LoginEmails : KeyLive(counter[e]) => counter[e].exp # 0

\* C38: with the store answering, of the requests for one email whose
\* redis.incr ran since the key was created, at most 5 go on to the
\* credential check, however the requests overlap; the others are answered
\* 429 without a findOne.
C38_AtMostFivePerWindow ==
    /\ \A e \in LoginEmails : reached[e] <= AttemptLimit
    /\ \A l \in Logins : lstatus[l] = 429 => ~lread[l]

C38_Witness ==
    \E l, q \in Logins, e \in LoginEmails :
        /\ l # q
        /\ lemail[l] = e /\ lemail[q] = e
        /\ reached[e] = AttemptLimit
        /\ lpc[l] = "done" /\ lstatus[l] = 429
        /\ lpc[q] \in {"findOne", "verify"}
        /\ now < windowStart[e] + ThrottleTtl

\* ----------------------------------- properties of the exported client
\* Request r, request l is received in this step.
GetStarts(r) == pc[r] = "idle" /\ method'[r] = "INTERNAL"
LoginStarts(l) == lpc[l] \in {"idle", "done"} /\ lpc'[l] \notin {"idle", "done"}
\* Request l is past its throttling block.
PastThrottle(l) == lpc[l] \in {"findOne", "verify", "sign"}

\* C39: a client that is null stays null in every step, also in the steps
\* in which the server answers again. A GET /internal/users/{id} received
\* while it is null goes to findOne without a redis.get and ends after
\* findOne with no Redis command and the cache unchanged; a POST /login
\* received while it is null goes to the credential check without a
\* redis.incr, and from there it is never answered 429 and its steps leave
\* the counter as it is.
C39_ClientStaysDisabled ==
    /\ [][~redis => ~redis']_vars
    /\ [][\A r \in Reqs :
            (GetStarts(r) /\ ~redis /\ ObjectIdIsValid(reqId'[r])) =>
                /\ pc'[r] = "internalFindOne"
                /\ cacheOps'[r] = <<>>
                /\ cache' = cache]_vars
    /\ [][\A r \in Reqs :
            (RecordRead(r) /\ ~redis) =>
                /\ pc'[r] = "done"
                /\ status'[r] \in {200, 404}
                /\ cacheOps'[r] = cacheOps[r]
                /\ cache' = cache]_vars
    /\ [][\A l \in Logins :
            (LoginStarts(l) /\ ~redis) =>
                /\ lpc'[l] = "findOne"
                /\ counter' = counter]_vars
    /\ [][\A l \in Logins :
            (PastThrottle(l) /\ lpc'[l] # lpc[l]) =>
                /\ lstatus'[l] # 429
                /\ counter' = counter]_vars

\* the server answers again and the client is still null: a read of a
\* cached id was served from the record without a Redis command, and a
\* login was served while no key exists
C39_Witness ==
    /\ ~redis /\ storeUp
    /\ \E r \in Reqs :
          /\ InternalDone(r) /\ status[r] = 200 /\ cacheOps[r] = <<>>
          /\ dbReads[r] = 1
          /\ Live(cache[reqId[r]])
    /\ \E l \in Logins, e \in LoginEmails :
          /\ lpc[l] = "done" /\ lemail[l] = e /\ lread[l]
          /\ lstatus[l] \in {200, 401}
          /\ counter[e] = NoCounter

\* ------------------------------- properties of concurrent registration
\* the requests for email e that inserted a record
InsertedFor(e) == {r \in Regs : remail[r] = e /\ rid[r] # 0}

\* C40: no two user records share an email; of the registrations of one
\* email at most one inserts a record, and once they all ended exactly one
\* of them was answered 201 and the others 409, each of these without an
\* insertion and without a call of the notifications collaborator.
C40_EmailIsUnique ==
    /\ \A d1, d2 \in docs : d1.email = d2.email => d1 = d2
    /\ \A e \in Emails : Cardinality(InsertedFor(e)) <= 1
    /\ \A e \in Emails :
          LET S == {r \in Regs : remail[r] = e /\ rpc[r] # "idle"}
          IN (S # {} /\ \A r \in S : rpc[r] = "done") =>
                /\ Cardinality({r \in S : rstatus[r] = 201}) = 1
                /\ \A r \in S : rstatus[r] # 201 =>
                      /\ rstatus[r] = 409
                      /\ rid[r] = 0
                      /\ npc[r] = "idle"

====
